---- MODULE Spec2Model ----
(***************************************************************************)
(* A model of the Klatt formant synthesizer (klatt/src/klatt.rs) and of   *)
(* its rational-polynomial algebra (klatt/src/poly_real.rs).              *)
(*                                                                         *)
(* f64 values are modelled as extended rationals <<n, d>>: d > 0 is the   *)
(* rational n/d in lowest terms, <<1,0>> is +inf, <<-1,0>> is -inf and    *)
(* <<0,0>> is NaN.  Negative zero is not distinguished from zero.  The    *)
(* transcendental functions (exp, cos, sin, pow, sqrt) are given by       *)
(* tables on the arguments the model feeds them; entries that are not     *)
(* exact are rounded and say so.                                           *)
(*                                                                         *)
(*                                                                         *)
(* One more value, Unknown = <<0,-1>>, stands for a finite signal value that  *)
(* the model does not compute (a random draw, a filtered sample): Unknown     *)
(* times an exact zero is zero, every other sum or product with Unknown is    *)
(* Unknown.  Inside the generator every signal is abstracted to Zero or Unknown   *)
(* where it enters the filter network, so a delay line there is either    *)
(* exactly zero or Unknown; the filter objects on their own (SpecFilter) are  *)
(* stepped with exact values.                                              *)
(***************************************************************************)
EXTENDS Integers, Sequences, FiniteSets, TLC

\* ------------------------------------------------------------------------
\* Bounds of the model
\* ------------------------------------------------------------------------

\* generate_frame calls made by the caller in Spec
MaxCalls == 2
\* length of the buffer handed to generate_frame in Spec
MaxBufLen == 3
\* frames in the sequence handed to generate_sound in SpecSound
MaxFrames == 2
\* operations applied to one filter object in SpecFilter
MaxFilterOps == 3
\* white-noise values of each random stream that raw_log keeps
RawLogLen == 2
\* oral formants of a frame handed to the transfer-function computation
MaxOral == 3

\* ------------------------------------------------------------------------
\* f64 as extended rationals
\* ------------------------------------------------------------------------

Abs(n) == IF n < 0 THEN -n ELSE n

Sign(n) == IF n < 0 THEN -1 ELSE IF n > 0 THEN 1 ELSE 0

RECURSIVE Gcd(_, _)
Gcd(a, b) == IF b = 0 THEN a ELSE Gcd(b, a % b)

\* the f64 n/d, in lowest terms; d = 0 gives an infinity or NaN
Q(n, d) ==
    IF d = 0 THEN <<Sign(n), 0>>
    ELSE LET g == Gcd(Abs(n), Abs(d))
             s == Sign(d)
         IN  <<(s * n) \div g, (s * d) \div g>>

F(n) == <<n, 1>>

NaN == <<0, 0>>
PosInf == <<1, 0>>
NegInf == <<-1, 0>>
Zero == <<0, 1>>
One == <<1, 1>>

\* a finite value the model does not compute
Unknown == <<0, -1>>

\* the abstraction of a signal value: exactly zero, or not computed
Abstract(x) == IF x = Zero THEN Zero ELSE Unknown

is_nan(x) == x = NaN
is_infinite(x) == x[2] = 0 /\ x[1] # 0
is_finite(x) == x[2] # 0

FNeg(x) == IF x = Unknown THEN Unknown ELSE <<-x[1], x[2]>>

FAbs(x) == IF x = Unknown THEN Unknown ELSE <<Abs(x[1]), x[2]>>

FAdd(x, y) ==
    IF is_nan(x) \/ is_nan(y) THEN NaN
    ELSE IF x = Unknown \/ y = Unknown THEN Unknown
    ELSE IF is_infinite(x) /\ is_infinite(y)
         THEN (IF x = y THEN x ELSE NaN)
    ELSE IF x[2] = 0 THEN x
    ELSE IF y[2] = 0 THEN y
    ELSE Q(x[1] * (y[2] \div Gcd(x[2], y[2])) + y[1] * (x[2] \div Gcd(x[2], y[2])),
           x[2] * (y[2] \div Gcd(x[2], y[2])))

FSub(x, y) == FAdd(x, FNeg(y))

FMul(x, y) ==
    IF is_nan(x) \/ is_nan(y) THEN NaN
    ELSE IF x = Unknown \/ y = Unknown
         THEN (IF x = Zero \/ y = Zero THEN Zero ELSE Unknown)
    ELSE IF x[2] = 0 \/ y[2] = 0 THEN Q(x[1] * y[1], 0)
    ELSE Q((x[1] \div Gcd(Abs(x[1]), y[2])) * (y[1] \div Gcd(Abs(y[1]), x[2])),
           (x[2] \div Gcd(Abs(y[1]), x[2])) * (y[2] \div Gcd(Abs(x[1]), y[2])))

FDiv(x, y) ==
    IF is_nan(x) \/ is_nan(y) THEN NaN
    ELSE IF x = Unknown \/ y = Unknown THEN (IF x = Zero THEN Zero ELSE Unknown)
    ELSE IF is_infinite(x) /\ is_infinite(y) THEN NaN
    ELSE IF y[1] = 0 \/ y[2] = 0 \/ x[2] = 0
         THEN (IF y[1] < 0 THEN Q(-(x[1] * y[2]), -(x[2] * y[1]))
               ELSE Q(x[1] * y[2], x[2] * y[1]))
    ELSE FMul(x, <<Sign(y[1]) * y[2], Abs(y[1])>>)

\* IEEE comparisons: every comparison with NaN is false
FLt(x, y) ==
    /\ ~is_nan(x) /\ ~is_nan(y)
    /\ IF x[2] = 0 /\ y[2] = 0 THEN x[1] < y[1]
       ELSE x[1] * y[2] < y[1] * x[2]

FEq(x, y) == ~is_nan(x) /\ ~is_nan(y) /\ x = y
FNe(x, y) == ~FEq(x, y)
FLe(x, y) == FLt(x, y) \/ FEq(x, y)
FGt(x, y) == FLt(y, x)
FGe(x, y) == FLe(y, x)

\* libm round: to the nearest integer, halves away from zero (finite x)
round(x) ==
    LET n == x[1]
        d == x[2]
    IN  IF n >= 0 THEN (2 * n + d) \div (2 * d)
        ELSE -((2 * (-n) + d) \div (2 * d))

\* `x as usize`: truncation toward zero, saturating, NaN to 0
as_usize(n) == IF n < 0 THEN 0 ELSE n


\* ------------------------------------------------------------------------
\* libm functions, on the arguments the model uses
\* ------------------------------------------------------------------------

\* cos(2 * PI * x); exact at 0, 1/6, 1/4, 1/3, rounded to 3 places elsewhere.
\* At 1/1200000000 (1e-5 Hz at 12000 Hz) the f64 value is 1.0 as well.
Cos2Pi(x) ==
    CASE is_nan(x) -> NaN
      [] x = Zero -> One
      [] x = Q(1, 12) -> Q(866, 1000)
      [] x = Q(1, 10) -> Q(809, 1000)
      [] x = Q(1, 6) -> Q(1, 2)
      [] x = Q(1, 4) -> Zero
      [] x = Q(1, 3) -> Q(-1, 2)
      [] x = Q(1000, 2004) -> F(-1)
      [] x = Q(1, 1200000000) -> One

\* exp(-PI * x), rounded to 2 places; the bandwidths 442/2004, 2648/12000
\* give 1/2 and 701/2004, 4196/12000 give 1/3 to 3 places. At 1/1200000000
\* the f64 value r = 0.9999999973820062 has r * r = 1 - 2 * (1 - r), which
\* makes 1 - 2 * r + r * r exactly 0.0, as the rounded value 1 does here.
ExpNegPi(x) ==
    CASE is_nan(x) -> NaN
      [] x = One -> Q(4, 100)
      [] x = Q(1, 2) -> Q(21, 100)
      [] x = Q(1, 3) -> Q(35, 100)
      [] x = Q(1, 4) -> Q(46, 100)
      [] x = Q(1, 5) -> Q(53, 100)
      [] x = Q(1, 6) -> Q(59, 100)
      [] x = Q(442, 2004) -> Q(1, 2)
      [] x = Q(2648, 12000) -> Q(1, 2)
      [] x = Q(701, 2004) -> Q(1, 3)
      [] x = Q(4196, 12000) -> Q(1, 3)
      [] x = Q(1, 1200000000) -> One

\* pow(10.0, x) for an integer x
RECURSIVE Pow10(_)
Pow10(k) ==
    IF k = 0 THEN One
    ELSE IF k > 0 THEN FMul(F(10), Pow10(k - 1))
    ELSE FDiv(Pow10(k + 1), F(10))

\* pow(x, 0.33), rounded to 2 places, for x = sample_rate / 10000
Pow033(x) ==
    CASE x = Q(2004, 10000) -> Q(59, 100)
      [] x = Q(12000, 10000) -> Q(106, 100)
      [] x = Q(44100, 10000) -> Q(163, 100)

\* the integer part of the square root of v >= 0
ISqrt(v) == CHOOSE s \in 0 .. v : s * s <= v /\ (s + 1) * (s + 1) > v

\* sqrt(x) for a finite x >= 0, rounded down to 2 places; NaN for x < 0
sqrt(x) ==
    IF is_nan(x) \/ FLt(x, Zero) THEN NaN
    ELSE LET h == (x[1] \div x[2]) * 100 + ((x[1] % x[2]) * 100) \div x[2]
         IN  Q(ISqrt(h * 100), 100)

\* a value rounded down to 3 places, which keeps the tables' precision
Places3(x) ==
    IF ~is_finite(x) \/ x = Unknown THEN x
    ELSE LET n == Abs(x[1])
             h == (n \div x[2]) * 1000 + ((n % x[2]) * 1000) \div x[2]
         IN  Q(Sign(x[1]) * h, 1000)

\* ------------------------------------------------------------------------
\* Results of fallible operations: err = "" is Ok(v); otherwise Err(err),
\* and v is the state the failed operation left behind
\* ------------------------------------------------------------------------

Ok(v) == [err |-> "", v |-> v]
Err(msg, v) == [err |-> msg, v |-> v]
IsOk(r) == r.err = ""

\* ------------------------------------------------------------------------
\* LpFilter1
\* ------------------------------------------------------------------------

LpFilter1_new(sample_rate) ==
    [sample_rate |-> sample_rate, a |-> Zero, b |-> Zero, y1 |-> Zero,
     passthrough |-> TRUE, muted |-> FALSE]

\* q = (1.0 - g.powi(2) * cos(w)) / (1.0 - g.powi(2)), for g2 = g^2, cw = cos(w)
LpFilter1_q(g2, cw) == Places3(FDiv(FSub(One, FMul(g2, cw)), FSub(One, g2)))

\* b = q - sqrt(q^2 - 1)
LpFilter1_b(q) == FSub(q, sqrt(FSub(FMul(q, q), One)))

\* self.b = b; self.a = (1.0 - b) * extra_gain; ...
LpFilter1_set_b(flt, b, extra_gain) ==
    [flt EXCEPT !.b = b,
                !.a = Places3(FMul(FSub(One, b), extra_gain)),
                !.passthrough = FALSE,
                !.muted = FALSE]

\* extra_gain is already unwrapped: None is 1.0
LpFilter1_set(flt, f, g, extra_gain) ==
    IF \/ FLe(f, Zero)
       \/ FGe(f, Q(flt.sample_rate, 2))
       \/ FLe(g, Zero)
       \/ FGe(g, One)
       \/ is_infinite(f)
       \/ is_infinite(g)
       \/ is_infinite(extra_gain)
    THEN Err("Invalid filter parameters.", flt)
    ELSE Ok(LpFilter1_set_b(
                flt,
                LpFilter1_b(LpFilter1_q(Places3(FMul(g, g)),
                                        Cos2Pi(FDiv(f, F(flt.sample_rate))))),
                extra_gain))

LpFilter1_set_passthrough(flt) ==
    [flt EXCEPT !.passthrough = TRUE, !.muted = FALSE, !.y1 = Zero]

LpFilter1_set_mute(flt) ==
    [flt EXCEPT !.passthrough = FALSE, !.muted = TRUE, !.y1 = Zero]

LpFilter1_get_transfer_function_coefficients(flt) ==
    IF flt.passthrough THEN <<<<One>>, <<One>>>>
    ELSE IF flt.muted THEN <<<<Zero>>, <<One>>>>
    ELSE <<<<flt.a>>, <<One, FNeg(flt.b)>>>>

\* the filter after the step, and the output value y
LpFilter1_step(flt, x) ==
    IF flt.passthrough THEN [flt |-> flt, y |-> x]
    ELSE IF flt.muted THEN [flt |-> flt, y |-> Zero]
    ELSE LET y == FAdd(FMul(flt.a, x), FMul(flt.b, flt.y1))
         IN  [flt |-> [flt EXCEPT !.y1 = y], y |-> y]

\* ------------------------------------------------------------------------
\* Resonator
\* ------------------------------------------------------------------------

Resonator_new(sample_rate) ==
    [sample_rate |-> sample_rate, a |-> Zero, b |-> Zero, c |-> Zero,
     y1 |-> Zero, y2 |-> Zero, r |-> Zero,
     passthrough |-> TRUE, muted |-> FALSE]

\* a set that starts from an empty delay line
Resonator_reset_r(flt, r, cw, dc_gain) ==
    [flt EXCEPT !.r = r,
                !.c = FNeg(FMul(r, r)),
                !.b = FMul(F(2), FMul(r, cw)),
                !.a = FMul(FSub(FSub(One, FMul(F(2), FMul(r, cw))),
                                FNeg(FMul(r, r))),
                           dc_gain),
                !.passthrough = FALSE,
                !.muted = FALSE,
                !.y1 = Zero,
                !.y2 = Zero]

\* the coefficients of a resonator for r = exp(-PI * bw / sample_rate) and
\* cw = cos(w)
Resonator_set_r(flt, r, cw, dc_gain) ==
    [flt EXCEPT !.r = r,
                !.c = FNeg(FMul(r, r)),
                !.b = FMul(F(2), FMul(r, cw)),
                !.a = FMul(FSub(FSub(One, FMul(F(2), FMul(r, cw))),
                                FNeg(FMul(r, r))),
                           dc_gain),
                !.passthrough = FALSE,
                !.muted = FALSE]

\* dc_gain is already unwrapped: None is 1.0
Resonator_set(flt, f, bw, dc_gain) ==
    IF \/ FLt(f, Zero)
       \/ FGe(f, Q(flt.sample_rate, 2))
       \/ FLe(bw, Zero)
       \/ FLe(dc_gain, Zero)
       \/ is_infinite(f)
       \/ is_infinite(bw)
       \/ is_infinite(dc_gain)
    THEN Err("Invalid resonator parameters.", flt)
    ELSE Ok(Resonator_set_r(flt,
                            ExpNegPi(FDiv(bw, F(flt.sample_rate))),
                            Cos2Pi(FDiv(f, F(flt.sample_rate))),
                            dc_gain))

Resonator_set_passthrough(flt) ==
    [flt EXCEPT !.passthrough = TRUE, !.muted = FALSE,
                !.y1 = Zero, !.y2 = Zero]

Resonator_set_mute(flt) ==
    [flt EXCEPT !.passthrough = FALSE, !.muted = TRUE,
                !.y1 = Zero, !.y2 = Zero]

Resonator_adjust_impulse_gain(flt, new_a) == [flt EXCEPT !.a = new_a]

Resonator_adjust_peak_gain(flt, peak_gain) ==
    IF FLe(peak_gain, Zero) \/ is_infinite(peak_gain)
    THEN Err("Invalid resonator peak gain.", flt)
    ELSE Ok([flt EXCEPT !.a = FMul(peak_gain, FSub(One, flt.r))])

Resonator_get_transfer_function_coefficients(flt) ==
    IF flt.passthrough THEN <<<<One>>, <<One>>>>
    ELSE IF flt.muted THEN <<<<Zero>>, <<One>>>>
    ELSE <<<<flt.a>>, <<One, FNeg(flt.b), FNeg(flt.c)>>>>

\* a step that computes the difference equation whatever the mode is; C10
\* must tell it from Resonator_step
Resonator_step_ignoring_modes(flt, x) ==
    LET y == FAdd(FAdd(FMul(flt.a, x), FMul(flt.b, flt.y1)),
                  FMul(flt.c, flt.y2))
    IN  [flt |-> [flt EXCEPT !.y2 = flt.y1, !.y1 = y], y |-> y]

Resonator_step(flt, x) ==
    IF flt.passthrough THEN [flt |-> flt, y |-> x]
    ELSE IF flt.muted THEN [flt |-> flt, y |-> Zero]
    ELSE LET y == FAdd(FAdd(FMul(flt.a, x), FMul(flt.b, flt.y1)),
                       FMul(flt.c, flt.y2))
         IN  [flt |-> [flt EXCEPT !.y2 = flt.y1, !.y1 = y], y |-> y]

\* ------------------------------------------------------------------------
\* AntiResonator
\* ------------------------------------------------------------------------

AntiResonator_new(sample_rate) ==
    [sample_rate |-> sample_rate, a |-> Zero, b |-> Zero, c |-> Zero,
     x1 |-> Zero, x2 |-> Zero,
     passthrough |-> TRUE, muted |-> FALSE]

\* the coefficients of an anti-resonator from a0, b0, c0
AntiResonator_set_abc(flt, a0, b0, c0) ==
    IF FEq(a0, Zero)
    THEN [flt EXCEPT !.a = Zero, !.b = Zero, !.c = Zero]
    ELSE [flt EXCEPT !.a = FDiv(One, a0),
                     !.b = FDiv(FNeg(b0), a0),
                     !.c = FDiv(FNeg(c0), a0),
                     !.passthrough = FALSE,
                     !.muted = FALSE]

\* c0 = -(r * r), b0 = 2 r cos(w), a0 = 1 - b0 - c0
AntiResonator_set_bc(flt, b0, c0) ==
    AntiResonator_set_abc(flt, FSub(FSub(One, b0), c0), b0, c0)

AntiResonator_set_r(flt, r, cw) ==
    AntiResonator_set_bc(flt, FMul(F(2), FMul(r, cw)), FNeg(FMul(r, r)))

AntiResonator_set(flt, f, bw) ==
    IF \/ FLe(f, Zero)
       \/ FGe(f, Q(flt.sample_rate, 2))
       \/ FLe(bw, Zero)
       \/ is_infinite(f)
       \/ is_infinite(bw)
    THEN Err("Invalid anti-resonator parameters.", flt)
    ELSE Ok(AntiResonator_set_r(flt,
                                ExpNegPi(FDiv(bw, F(flt.sample_rate))),
                                Cos2Pi(FDiv(f, F(flt.sample_rate)))))

AntiResonator_set_passthrough(flt) ==
    [flt EXCEPT !.passthrough = TRUE, !.muted = FALSE,
                !.x1 = Zero, !.x2 = Zero]

AntiResonator_set_mute(flt) ==
    [flt EXCEPT !.passthrough = FALSE, !.muted = TRUE,
                !.x1 = Zero, !.x2 = Zero]

AntiResonator_get_transfer_function_coefficients(flt) ==
    IF flt.passthrough THEN <<<<One>>, <<One>>>>
    ELSE IF flt.muted THEN <<<<Zero>>, <<One>>>>
    ELSE <<<<flt.a, flt.b, flt.c>>, <<One>>>>

AntiResonator_step(flt, x) ==
    IF flt.passthrough THEN [flt |-> flt, y |-> x]
    ELSE IF flt.muted THEN [flt |-> flt, y |-> Zero]
    ELSE LET y == FAdd(FAdd(FMul(flt.a, x), FMul(flt.b, flt.x1)),
                       FMul(flt.c, flt.x2))
         IN  [flt |-> [flt EXCEPT !.x2 = flt.x1, !.x1 = x], y |-> y]

\* ------------------------------------------------------------------------
\* DifferencingFilter
\* ------------------------------------------------------------------------

DifferencingFilter_new == [x1 |-> Zero]

DifferencingFilter_get_transfer_function_coefficients ==
    <<<<One, F(-1)>>, <<One>>>>

DifferencingFilter_step(flt, x) ==
    [flt |-> [flt EXCEPT !.x1 = x], y |-> FSub(x, flt.x1)]


\* ------------------------------------------------------------------------
\* Option values: None is <<>>, Some(x) is <<x>>
\* ------------------------------------------------------------------------

None == <<>>
Some(x) == <<x>>
unwrap(o) == o[1]

\* ------------------------------------------------------------------------
\* The injected random number generator (R: Rng + Clone): a deterministic
\* generator with 16 states; a clone is a copy of the state
\* ------------------------------------------------------------------------

RngStates == 0 .. 15

Rng_next(s) == (5 * s + 3) % 16

\* rng.random_range(0..=1000)
Rng_random_range_usize(s) ==
    [rng |-> Rng_next(s), x |-> (67 * Rng_next(s)) % 1001]

\* Returns a random number within the range -1 .. 1.
get_white_noise(s) ==
    [rng |-> Rng_next(s), x |-> Q(Rng_next(s) - 8, 8)]

\* ------------------------------------------------------------------------
\* LpNoiseSource
\* ------------------------------------------------------------------------

\* Ok(LpNoiseSource { rng, lp_filter }) once lp_filter.set(...)? has passed
LpNoiseSource_of(r, rng) ==
    IF IsOk(r) THEN Ok([lp_filter |-> r.v, rng |-> rng])
    ELSE Err(r.err, None)

\* g = (1 - old_b) / sqrt(1 - 2 old_b cos(2 PI 1000 / 10000) + old_b^2)
LpNoiseSource_g(old_b) ==
    FDiv(FSub(One, old_b),
         sqrt(FAdd(FSub(One, FMul(FMul(F(2), old_b), Cos2Pi(Q(1000, 10000)))),
                   FMul(old_b, old_b))))

LpNoiseSource_new(sample_rate, rng) ==
    LpNoiseSource_of(
        LpFilter1_set(LpFilter1_new(sample_rate), F(1000),
                      LpNoiseSource_g(Q(75, 100)),
                      FMul(Q(25, 10), Pow033(Q(sample_rate, 10000)))),
        rng)

\* Returns an LP-filtered random number, the source after the draw, and the
\* raw white-noise value drawn
LpNoiseSource_get_next(src) ==
    LET w == get_white_noise(src.rng)
        st == LpFilter1_step(src.lp_filter, Abstract(w.x))
    IN  [src |-> [lp_filter |-> st.flt, rng |-> w.rng], y |-> st.y, raw |-> w.x]

\* ------------------------------------------------------------------------
\* ImpulsiveGlottalSource
\* ------------------------------------------------------------------------

ImpulsiveGlottalSource_new(sample_rate) ==
    [sample_rate |-> sample_rate, resonator |-> None, position_in_period |-> 0]

\* resonator.set(0.0, bw, None)? has returned r; on success
\* adjust_impulse_gain(1.0) and position_in_period = 0
ImpulsiveGlottalSource_started(src, r) ==
    IF ~IsOk(r) THEN Err(r.err, [src EXCEPT !.resonator = Some(r.v)])
    ELSE Ok([src EXCEPT !.resonator = Some(Resonator_adjust_impulse_gain(r.v, One)),
                        !.position_in_period = 0])

ImpulsiveGlottalSource_start_period(src, open_phase_length) ==
    IF open_phase_length = 0 THEN Ok([src EXCEPT !.resonator = None])
    ELSE ImpulsiveGlottalSource_started(
             src,
             Resonator_set(IF src.resonator = None
                           THEN Resonator_new(src.sample_rate)
                           ELSE unwrap(src.resonator),
                           Zero, Q(src.sample_rate, open_phase_length), One))

\* a pulse train that starts one sample early
ImpulsiveGlottalSource_early_pulse(position_in_period) ==
    IF position_in_period = 0 THEN One
    ELSE IF position_in_period = 1 THEN F(-1)
    ELSE Zero

\* the pulse fed to the resonator at a position of the period
ImpulsiveGlottalSource_pulse(position_in_period) ==
    IF position_in_period = 1 THEN One
    ELSE IF position_in_period = 2 THEN F(-1)
    ELSE Zero

ImpulsiveGlottalSource_get_next(src) ==
    IF src.resonator = None THEN [src |-> src, y |-> Zero]
    ELSE LET pulse == ImpulsiveGlottalSource_pulse(src.position_in_period)
             st == Resonator_step(unwrap(src.resonator), Abstract(pulse))
         IN  [src |-> [src EXCEPT !.position_in_period = @ + 1,
                                  !.resonator = Some(st.flt)],
              y |-> st.y]

\* ------------------------------------------------------------------------
\* NaturalGlottalSource
\* ------------------------------------------------------------------------

NaturalGlottalSource_start_period(src, open_phase_length) ==
    LET amplification == F(5)
        b == FDiv(FNeg(amplification),
                  FMul(F(open_phase_length), F(open_phase_length)))
    IN  [src EXCEPT !.open_phase_length = open_phase_length,
                    !.x = Zero,
                    !.b = b,
                    !.a = FDiv(FMul(FNeg(b), F(open_phase_length)), F(3)),
                    !.position_in_period = 0]

NaturalGlottalSource_new ==
    NaturalGlottalSource_start_period(
        [x |-> Zero, a |-> Zero, b |-> Zero,
         open_phase_length |-> 0, position_in_period |-> 0], 0)

NaturalGlottalSource_get_next(src) ==
    LET s1 == [src EXCEPT !.position_in_period = @ + 1]
    IN  IF s1.position_in_period >= s1.open_phase_length
        THEN [src |-> [s1 EXCEPT !.x = Zero], y |-> Zero]
        ELSE LET a == FAdd(s1.a, s1.b)
                 x == FAdd(s1.x, a)
             IN  [src |-> [s1 EXCEPT !.a = a, !.x = x], y |-> x]

\* start_period of src/src/lib.rs:
\* b = -(amplification / open_phase_length as f64).powf(2.0)
lib_NaturalGlottalSource_start_period(src, open_phase_length) ==
    [src EXCEPT !.open_phase_length = open_phase_length,
                !.x = Zero,
                !.b = FNeg(FMul(FDiv(F(5), F(open_phase_length)),
                                FDiv(F(5), F(open_phase_length)))),
                !.a = FDiv(FMul(FMul(FDiv(F(5), F(open_phase_length)),
                                     FDiv(F(5), F(open_phase_length))),
                                F(open_phase_length)), F(3)),
                !.position_in_period = 0]

\* ------------------------------------------------------------------------
\* perform_frequency_modulation, db_to_lin
\* ------------------------------------------------------------------------

\* sin(12.7 w) + sin(7.1 w) + sin(4.7 w) for w = 2 PI time and an integer
\* time, which has period 10 in time; rounded to 2 places
FlutterSines(time) ==
    CASE time % 10 = 0 -> Zero
      [] time % 10 = 1 -> Q(-131, 100)
      [] time % 10 = 2 -> Q(213, 100)
      [] time % 10 = 3 -> Q(213, 100)
      [] time % 10 = 4 -> Q(-131, 100)
      [] time % 10 = 5 -> Zero
      [] time % 10 = 6 -> Q(131, 100)
      [] time % 10 = 7 -> Q(-213, 100)
      [] time % 10 = 8 -> Q(-213, 100)
      [] time % 10 = 9 -> Q(131, 100)

\* time is flutter_time as f64, a whole number of seconds
perform_frequency_modulation(f0, flutter_level, time) ==
    IF FLe(flutter_level, Zero) THEN f0
    ELSE LET a == FlutterSines(time)
         IN  FMul(f0, FAdd(One, FDiv(FMul(a, flutter_level), F(50))))

\* Convert a dB value into a linear value; db / 20 is an integer in the model
db_to_lin(db) ==
    IF FLe(db, F(-99)) \/ is_nan(db) THEN Zero
    ELSE IF db = PosInf THEN PosInf
    ELSE Pow10(db[1] \div 20)


\* ------------------------------------------------------------------------
\* MainParms, FrameParms
\* ------------------------------------------------------------------------

MAX_ORAL_FORMANTS == 6

GlottalSourceType == {"Impulsive", "Natural", "Noise"}

\* A vowel frame for a sample rate divisible by 12, with a period of 4
\* samples, both branches enabled and two oral formants; the bandwidths are
\* those ExpNegPi maps to 1/2 and 1/3
BaseFrame(sr) ==
    [duration |-> 1,
     f0 |-> F(sr \div 4),
     flutter_level |-> Zero,
     open_phase_ratio |-> Q(1, 2),
     breathiness_db |-> F(-20),
     tilt_db |-> Zero,
     gain_db |-> Zero,
     agc_rms_level |-> Q(18, 100),
     nasal_formant_freq |-> One,
     nasal_formant_bw |-> Zero,
     oral_formant_freq |-> <<F(sr \div 4), F(sr \div 6)>>,
     oral_formant_bw |-> IF sr = 2004 THEN <<F(442), F(701)>>
                         ELSE <<F(2648), F(4196)>>,
     cascade_enabled |-> TRUE,
     cascade_voicing_db |-> Zero,
     cascade_aspiration_db |-> F(-20),
     cascade_aspiration_mod |-> Q(1, 2),
     nasal_antiformant_freq |-> One,
     nasal_antiformant_bw |-> Zero,
     parallel_enabled |-> TRUE,
     parallel_voicing_db |-> Zero,
     parallel_aspiration_db |-> F(-20),
     parallel_aspiration_mod |-> Q(1, 2),
     frication_db |-> F(-20),
     frication_mod |-> Q(1, 2),
     parallel_bypass_db |-> F(-99),
     nasal_formant_db |-> Zero,
     oral_formant_db |-> <<Zero, F(-20)>>]

\* The frames a caller hands to the generator, by the name the model gives
\* the FrameParms object
FrameTable(sr) ==
    LET base == BaseFrame(sr)
        bw2 == base.oral_formant_bw[1]
        bw3 == base.oral_formant_bw[2]
    IN  [FA |-> base,
         \* cascade only, period of 3, nasal formant and antiformant set
         FB |-> [base EXCEPT !.f0 = F(sr \div 3),
                             !.gain_db = F(20),
                             !.parallel_enabled = FALSE,
                             !.nasal_formant_freq = F(sr \div 3),
                             !.nasal_formant_bw = bw2,
                             !.nasal_antiformant_freq = F(sr \div 6),
                             !.nasal_antiformant_bw = bw3,
                             !.oral_formant_freq = <<F(sr \div 6)>>],
         \* automatic gain control
         FAgc |-> [base EXCEPT !.gain_db = NaN],
         \* second oral formant at the Nyquist frequency: invalid
         FBad |-> [base EXCEPT !.oral_formant_freq = <<F(sr \div 4), F(sr \div 2)>>],
         \* no oral formant levels given
         FNoDb |-> [base EXCEPT !.oral_formant_db = <<>>],
         \* a frame of zero seconds
         FZero |-> [base EXCEPT !.duration = 0],
         \* silent output, unvoiced (f0 = 0), spectral tilt of 20 dB
         FQuiet |-> [base EXCEPT !.f0 = Zero,
                                 !.gain_db = F(-100),
                                 !.tilt_db = F(20)],
         \* a pitch above twice the sample rate
         FHigh |-> [base EXCEPT !.f0 = F(100000)]]

FrameNames == {"FA", "FB", "FAgc", "FBad", "FNoDb", "FQuiet"}

\* Vec<f64> equality
VecEq(v1, v2) ==
    /\ Len(v1) = Len(v2)
    /\ \A i \in 1 .. Len(v1) : FEq(v1[i], v2[i])

\* #[derive(PartialEq)] for FrameParms: field by field, f64 by IEEE ==
FrameParms_eq(p, q) ==
    /\ p.duration = q.duration
    /\ FEq(p.f0, q.f0)
    /\ FEq(p.flutter_level, q.flutter_level)
    /\ FEq(p.open_phase_ratio, q.open_phase_ratio)
    /\ FEq(p.breathiness_db, q.breathiness_db)
    /\ FEq(p.tilt_db, q.tilt_db)
    /\ FEq(p.gain_db, q.gain_db)
    /\ FEq(p.agc_rms_level, q.agc_rms_level)
    /\ FEq(p.nasal_formant_freq, q.nasal_formant_freq)
    /\ FEq(p.nasal_formant_bw, q.nasal_formant_bw)
    /\ VecEq(p.oral_formant_freq, q.oral_formant_freq)
    /\ VecEq(p.oral_formant_bw, q.oral_formant_bw)
    /\ p.cascade_enabled = q.cascade_enabled
    /\ FEq(p.cascade_voicing_db, q.cascade_voicing_db)
    /\ FEq(p.cascade_aspiration_db, q.cascade_aspiration_db)
    /\ FEq(p.cascade_aspiration_mod, q.cascade_aspiration_mod)
    /\ FEq(p.nasal_antiformant_freq, q.nasal_antiformant_freq)
    /\ FEq(p.nasal_antiformant_bw, q.nasal_antiformant_bw)
    /\ p.parallel_enabled = q.parallel_enabled
    /\ FEq(p.parallel_voicing_db, q.parallel_voicing_db)
    /\ FEq(p.parallel_aspiration_db, q.parallel_aspiration_db)
    /\ FEq(p.parallel_aspiration_mod, q.parallel_aspiration_mod)
    /\ FEq(p.frication_db, q.frication_db)
    /\ FEq(p.frication_mod, q.frication_mod)
    /\ FEq(p.parallel_bypass_db, q.parallel_bypass_db)
    /\ FEq(p.nasal_formant_db, q.nasal_formant_db)
    /\ VecEq(p.oral_formant_db, q.oral_formant_db)

FrameState_new ==
    [breathiness_lin |-> Zero, gain_lin |-> Zero,
     cascade_voicing_lin |-> Zero, cascade_aspiration_lin |-> Zero,
     parallel_voicing_lin |-> Zero, parallel_aspiration_lin |-> Zero,
     frication_lin |-> Zero, parallel_bypass_lin |-> Zero]

PeriodState_new ==
    [f0 |-> Zero, period_length |-> 0, open_phase_length |-> 0,
     position_in_period |-> 0]

\* ------------------------------------------------------------------------
\* The filter setters of a frame
\* ------------------------------------------------------------------------

set_tilt_filter(tilt_filter, tilt_db) ==
    IF FEq(tilt_db, Zero) THEN Ok(LpFilter1_set_passthrough(tilt_filter))
    ELSE LpFilter1_set(tilt_filter, F(3000), db_to_lin(FNeg(tilt_db)), One)

set_nasal_formant_casc(nasal_formant_casc, f_parms) ==
    IF FNe(f_parms.nasal_formant_freq, Zero) /\ FNe(f_parms.nasal_formant_bw, Zero)
    THEN Resonator_set(nasal_formant_casc, f_parms.nasal_formant_freq,
                       f_parms.nasal_formant_bw, One)
    ELSE Ok(Resonator_set_passthrough(nasal_formant_casc))

set_nasal_antiformant_casc(nasal_antiformant_casc, f_parms) ==
    IF /\ FNe(f_parms.nasal_antiformant_freq, Zero)
       /\ FNe(f_parms.nasal_antiformant_bw, Zero)
    THEN AntiResonator_set(nasal_antiformant_casc, f_parms.nasal_antiformant_freq,
                           f_parms.nasal_antiformant_bw)
    ELSE Ok(AntiResonator_set_passthrough(nasal_antiformant_casc))

\* entry i (from 0) of an oral formant array, NaN when it has none
OralEntry(v, i) == IF i < Len(v) THEN v[i + 1] ELSE NaN

set_oral_formant_casc(oral_formant_casc, f_parms, i) ==
    LET f == OralEntry(f_parms.oral_formant_freq, i)
        bw == OralEntry(f_parms.oral_formant_bw, i)
    IN  IF is_finite(f) /\ is_finite(bw)
        THEN Resonator_set(oral_formant_casc, f, bw, One)
        ELSE Ok(Resonator_set_passthrough(oral_formant_casc))

\* `adjust_peak_gain(gain)?` after `set(...)?` has returned r
then_adjust_peak_gain(r, gain) ==
    IF ~IsOk(r) THEN r ELSE Resonator_adjust_peak_gain(r.v, gain)

set_nasal_formant_par(nasal_formant_par, f_parms) ==
    IF /\ FNe(f_parms.nasal_formant_freq, Zero)
       /\ FNe(f_parms.nasal_formant_bw, Zero)
       /\ FNe(db_to_lin(f_parms.nasal_formant_db), Zero)
    THEN then_adjust_peak_gain(
             Resonator_set(nasal_formant_par, f_parms.nasal_formant_freq,
                           f_parms.nasal_formant_bw, One),
             db_to_lin(f_parms.nasal_formant_db))
    ELSE Ok(Resonator_set_mute(nasal_formant_par))

\* diff_gain = sqrt(2.0 - 2.0 * cos(w)), the gain of the differencing filter
diff_gain(f, sample_rate) ==
    sqrt(FSub(F(2), FMul(F(2), Cos2Pi(FDiv(f, F(sample_rate))))))

\* `oral_formant_par.adjust_peak_gain(filter_gain)?` after `set(...)?` has
\* returned r
then_adjust_filter_gain(r, formant, f, sample_rate, peak_gain) ==
    IF ~IsOk(r) THEN r
    ELSE Resonator_adjust_peak_gain(
             r.v,
             IF formant >= 2 THEN FDiv(peak_gain, diff_gain(f, sample_rate))
             ELSE peak_gain)

\* set_oral_formant_par for the values f, bw, peak_gain of formant i + 1
set_oral_formant_par_to(oral_formant_par, sample_rate, formant, f, bw, peak_gain) ==
    IF is_finite(f) /\ is_finite(bw) /\ is_finite(peak_gain)
    THEN then_adjust_filter_gain(Resonator_set(oral_formant_par, f, bw, One),
                                 formant, f, sample_rate, peak_gain)
    ELSE Ok(Resonator_set_mute(oral_formant_par))

set_oral_formant_par(oral_formant_par, m_parms, f_parms, i) ==
    set_oral_formant_par_to(oral_formant_par, m_parms.sample_rate, i + 1,
                            OralEntry(f_parms.oral_formant_freq, i),
                            OralEntry(f_parms.oral_formant_bw, i),
                            db_to_lin(OralEntry(f_parms.oral_formant_db, i)))


\* ------------------------------------------------------------------------
\* Generator
\* ------------------------------------------------------------------------

\* the FrameParms object a frame name refers to
FrameOf(m_parms, name) == FrameTable(m_parms.sample_rate)[name]

\* Ok(Some(v)) for Ok(v), and likewise for Err
Some_result(r) == [err |-> r.err, v |-> Some(r.v)]

\* `op(&mut self.field)?` has returned r: the result of the generator's
\* method so far, with the field as op left it
set_field(g, field, r) ==
    [err |-> r.err, v |-> [g EXCEPT ![field] = r.v]]

\* the same for `op(&mut self.field[i])?`
set_field_at(g, field, i, r) ==
    [err |-> r.err, v |-> [g EXCEPT ![field][i + 1] = r.v]]

init_glottal_source(g) ==
    CASE g.m_parms.glottal_source_type = "Impulsive" ->
           [g EXCEPT !.impulsive_g_source =
                Some(ImpulsiveGlottalSource_new(g.m_parms.sample_rate))]
      [] g.m_parms.glottal_source_type = "Natural" ->
           [g EXCEPT !.natural_g_source = Some(NaturalGlottalSource_new)]
      [] g.m_parms.glottal_source_type = "Noise" -> g

\* Generator::new once the flutter offset d is drawn, the noise sources
\* casc, par, fric are made and output_lp_filter.set has returned olp
Generator_of(m_parms, d, casc, par, fric, olp) ==
    IF ~IsOk(casc) THEN Err(casc.err, None)
    ELSE IF ~IsOk(par) THEN Err(par.err, None)
    ELSE IF ~IsOk(fric) THEN Err(fric.err, None)
    ELSE IF ~IsOk(olp) THEN Err(olp.err, None)
    ELSE Ok(init_glottal_source(
        [m_parms |-> m_parms,
         f_parms |-> None,
         new_f_parms |-> None,
         f_state |-> FrameState_new,
         p_state |-> None,
         abs_position |-> 0,
         tilt_filter |-> LpFilter1_new(m_parms.sample_rate),
         output_lp_filter |-> olp.v,
         flutter_time_offset |-> d.x,
         impulsive_g_source |-> None,
         natural_g_source |-> None,
         aspiration_source_casc |-> casc.v,
         aspiration_source_par |-> par.v,
         frication_source_par |-> fric.v,
         nasal_formant_casc |-> Resonator_new(m_parms.sample_rate),
         nasal_antiformant_casc |-> AntiResonator_new(m_parms.sample_rate),
         oral_formant_casc |->
             [i \in 1 .. MAX_ORAL_FORMANTS |-> Resonator_new(m_parms.sample_rate)],
         nasal_formant_par |-> Resonator_new(m_parms.sample_rate),
         oral_formant_par |->
             [i \in 1 .. MAX_ORAL_FORMANTS |-> Resonator_new(m_parms.sample_rate)],
         differencing_filter_par |-> DifferencingFilter_new,
         rng |-> d.rng]))

\* the noise sources of a generator, each with a clone of the rng as it is
\* after the flutter offset d was drawn
Generator_sources(m_parms, d) ==
    Generator_of(m_parms, d,
                 LpNoiseSource_new(m_parms.sample_rate, d.rng),
                 LpNoiseSource_new(m_parms.sample_rate, d.rng),
                 LpNoiseSource_new(m_parms.sample_rate, d.rng),
                 Resonator_set(Resonator_new(m_parms.sample_rate), Zero,
                               Q(m_parms.sample_rate, 2), One))

\* Generator::new: Ok(generator) or Err
Generator_new(m_parms, rng0) ==
    Generator_sources(m_parms, Rng_random_range_usize(rng0))

\* for i in 0..MAX_ORAL_FORMANTS { set_oral_formant_casc(...)?; }, from i on;
\* r is the result so far
RECURSIVE set_oral_formants_casc(_, _, _)
set_oral_formants_casc(r, f_parms, i) ==
    IF ~IsOk(r) \/ i >= MAX_ORAL_FORMANTS THEN r
    ELSE set_oral_formants_casc(
             set_field_at(r.v, "oral_formant_casc", i,
                          set_oral_formant_casc(r.v.oral_formant_casc[i + 1],
                                                f_parms, i)),
             f_parms, i + 1)

\* for i in 0..MAX_ORAL_FORMANTS { set_oral_formant_par(...)?; }, from i on
RECURSIVE set_oral_formants_par(_, _, _)
set_oral_formants_par(r, f_parms, i) ==
    IF ~IsOk(r) \/ i >= MAX_ORAL_FORMANTS THEN r
    ELSE set_oral_formants_par(
             set_field_at(r.v, "oral_formant_par", i,
                          set_oral_formant_par(r.v.oral_formant_par[i + 1],
                                               r.v.m_parms, f_parms, i)),
             f_parms, i + 1)

\* breathiness_lin, gain_lin and set_tilt_filter(...)?
adjust_gain_and_tilt(g, f_parms) ==
    set_field([g EXCEPT
                 !.f_state.breathiness_lin = db_to_lin(f_parms.breathiness_db),
                 !.f_state.gain_lin =
                     db_to_lin(IF is_finite(f_parms.gain_db) THEN f_parms.gain_db
                               ELSE Zero)],
              "tilt_filter", set_tilt_filter(g.tilt_filter, f_parms.tilt_db))

\* set_nasal_formant_casc(...)? after the cascade gains
cascade_nasal_formant(r, f_parms) ==
    IF ~IsOk(r) THEN r
    ELSE set_field([r.v EXCEPT
                      !.f_state.cascade_voicing_lin =
                          db_to_lin(f_parms.cascade_voicing_db),
                      !.f_state.cascade_aspiration_lin =
                          db_to_lin(f_parms.cascade_aspiration_db)],
                   "nasal_formant_casc",
                   set_nasal_formant_casc(r.v.nasal_formant_casc, f_parms))

\* set_nasal_antiformant_casc(...)?
cascade_nasal_antiformant(r, f_parms) ==
    IF ~IsOk(r) THEN r
    ELSE set_field(r.v, "nasal_antiformant_casc",
                   set_nasal_antiformant_casc(r.v.nasal_antiformant_casc, f_parms))

\* the cascade-branch part of start_using_new_frame_parameters
adjust_cascade_branch(r, f_parms) ==
    set_oral_formants_casc(
        cascade_nasal_antiformant(cascade_nasal_formant(r, f_parms), f_parms),
        f_parms, 0)

\* set_nasal_formant_par(...)? after the parallel gains
parallel_nasal_formant(r, f_parms) ==
    IF ~IsOk(r) THEN r
    ELSE set_field([r.v EXCEPT
                      !.f_state.parallel_voicing_lin =
                          db_to_lin(f_parms.parallel_voicing_db),
                      !.f_state.parallel_aspiration_lin =
                          db_to_lin(f_parms.parallel_aspiration_db),
                      !.f_state.frication_lin = db_to_lin(f_parms.frication_db),
                      !.f_state.parallel_bypass_lin =
                          db_to_lin(f_parms.parallel_bypass_db)],
                   "nasal_formant_par",
                   set_nasal_formant_par(r.v.nasal_formant_par, f_parms))

\* the parallel-branch part of start_using_new_frame_parameters
adjust_parallel_branch(r, f_parms) ==
    set_oral_formants_par(parallel_nasal_formant(r, f_parms), f_parms, 0)

\* start_using_new_frame_parameters for the frame f_parms = self.f_parms
use_frame_parameters(g, f_parms) ==
    adjust_parallel_branch(
        adjust_cascade_branch(adjust_gain_and_tilt(g, f_parms), f_parms),
        f_parms)

start_using_new_frame_parameters(g) ==
    use_frame_parameters(g, FrameOf(g.m_parms, unwrap(g.f_parms)))

start_glottal_source_period(g) ==
    CASE g.m_parms.glottal_source_type = "Impulsive" ->
           set_field(g, "impulsive_g_source",
                     Some_result(ImpulsiveGlottalSource_start_period(
                                     unwrap(g.impulsive_g_source),
                                     unwrap(g.p_state).open_phase_length)))
      [] g.m_parms.glottal_source_type = "Natural" ->
           Ok([g EXCEPT !.natural_g_source =
                  Some(NaturalGlottalSource_start_period(
                           unwrap(g.natural_g_source),
                           unwrap(g.p_state).open_phase_length))])
      [] g.m_parms.glottal_source_type = "Noise" -> Ok(g)

\* `x as usize` without round: the fraction is cut off; C16 must tell it
\* from round_as_usize
truncate_as_usize(x) ==
    IF is_nan(x) THEN 0 ELSE as_usize(x[1] \div x[2])

\* round(x) as usize
round_as_usize(x) ==
    IF is_nan(x) THEN 0 ELSE as_usize(round(x))

\* p_state.period_length
period_length_of(sample_rate, f0) ==
    IF FGt(f0, Zero) THEN round_as_usize(FDiv(F(sample_rate), f0)) ELSE 1

\* p_state.open_phase_length
open_phase_length_of(period_length, open_phase_ratio) ==
    IF period_length > 1
    THEN round_as_usize(FMul(F(period_length), open_phase_ratio))
    ELSE 0

\* the period state for f0 and period_length
period_state(f0, period_length, open_phase_ratio) ==
    [f0 |-> f0,
     period_length |-> period_length,
     open_phase_length |-> open_phase_length_of(period_length, open_phase_ratio),
     position_in_period |-> 0]

\* the period state start_new_period assigns at flutter_time
new_period_state(sample_rate, f0, flutter_level, open_phase_ratio, flutter_time) ==
    period_state(
        perform_frequency_modulation(f0, flutter_level, flutter_time),
        period_length_of(sample_rate,
                         perform_frequency_modulation(f0, flutter_level,
                                                      flutter_time)),
        open_phase_ratio)

\* `self.abs_position / self.m_parms.sample_rate + self.flutter_time_offset`
\* on usize values
flutter_time_of(g) ==
    g.abs_position \div g.m_parms.sample_rate + g.flutter_time_offset

\* the new period state, and the glottal source started
start_period_of_frame(g, f_parms) ==
    start_glottal_source_period(
        [g EXCEPT !.p_state =
            Some(new_period_state(
                     g.m_parms.sample_rate, f_parms.f0, f_parms.flutter_level,
                     f_parms.open_phase_ratio, flutter_time_of(g)))])

\* start_new_period after the pending frame has been dealt with: r is the
\* result of that
start_period_state(r) ==
    IF ~IsOk(r) THEN r
    ELSE start_period_of_frame(
             IF r.v.p_state = None THEN [r.v EXCEPT !.p_state = Some(PeriodState_new)]
             ELSE r.v,
             FrameOf(r.v.m_parms, unwrap(r.v.f_parms)))

\* a start_new_period that activates the pending frame and leaves it
\* pending; C29 must tell it from start_new_period
start_new_period_twice(g) ==
    IF g.new_f_parms # None
    THEN start_period_state(
             start_using_new_frame_parameters(
                 [g EXCEPT !.f_parms = g.new_f_parms]))
    ELSE start_period_state(Ok(g))

\* Starts a new F0 period.
start_new_period(g) ==
    IF g.new_f_parms # None
    THEN start_period_state(
             start_using_new_frame_parameters(
                 [g EXCEPT !.f_parms = g.new_f_parms, !.new_f_parms = None]))
    ELSE start_period_state(Ok(g))

\* The computation of one sample threads a record of the generator and of
\* the function's local variables through its statements; `draws` lists the
\* random draws made so far, in order, with the white-noise value drawn.

\* the glottal source function chosen by init_glottal_source
glottal_source(g) ==
    CASE g.m_parms.glottal_source_type = "Impulsive" ->
           LET n == ImpulsiveGlottalSource_get_next(unwrap(g.impulsive_g_source))
           IN  [g |-> [g EXCEPT !.impulsive_g_source = Some(n.src)],
                voice |-> n.y, draws |-> <<>>]
      [] g.m_parms.glottal_source_type = "Natural" ->
           LET n == NaturalGlottalSource_get_next(unwrap(g.natural_g_source))
           IN  [g |-> [g EXCEPT !.natural_g_source = Some(n.src)],
                voice |-> n.y, draws |-> <<>>]
      [] g.m_parms.glottal_source_type = "Noise" ->
           LET w == get_white_noise(g.rng)
           IN  [g |-> [g EXCEPT !.rng = w.rng],
                voice |-> w.x, draws |-> <<[src |-> "glottal_noise", x |-> w.x]>>]

\* position_in_period >= period_length / 2
in_second_half(g) ==
    unwrap(g.p_state).position_in_period >= unwrap(g.p_state).period_length \div 2

\* `if p_state.position_in_period >= p_state.period_length / 2 { mod }
\* else { 0.0 }`, the value of current_aspiration_mod and
\* current_frication_mod
current_mod(g, mod) == IF in_second_half(g) THEN mod ELSE Zero

\* compute_cascade_branch up to `let mut v = cascade_voice + aspiration`
cascade_source(g, voice) ==
    LET f_parms == FrameOf(g.m_parms, unwrap(g.f_parms))
        cascade_voice == FMul(voice, g.f_state.cascade_voicing_lin)
        current_aspiration_mod ==
            current_mod(g, f_parms.cascade_aspiration_mod)
        n == LpNoiseSource_get_next(g.aspiration_source_casc)
        aspiration == FMul(FMul(n.y, g.f_state.cascade_aspiration_lin),
                           FSub(One, current_aspiration_mod))
    IN  [g |-> [g EXCEPT !.aspiration_source_casc = n.src],
         v |-> Abstract(FAdd(cascade_voice, aspiration)),
         draws |-> <<[src |-> "aspiration_casc", x |-> n.raw]>>]

\* v = nasal_antiformant_casc.step(v); v = nasal_formant_casc.step(v)
cascade_nasal(c) ==
    LET s1 == AntiResonator_step(c.g.nasal_antiformant_casc, c.v)
        s2 == Resonator_step(c.g.nasal_formant_casc, s1.y)
    IN  [c EXCEPT !.g.nasal_antiformant_casc = s1.flt,
                  !.g.nasal_formant_casc = s2.flt,
                  !.v = s2.y]

\* v = oral_formant_casc[i].step(v)
step_oral_formant_casc(c, i) ==
    LET st == Resonator_step(c.g.oral_formant_casc[i + 1], c.v)
    IN  [c EXCEPT !.g.oral_formant_casc[i + 1] = st.flt, !.v = st.y]

\* for i in 0..MAX_ORAL_FORMANTS { ... }, from i on
RECURSIVE step_oral_formants_casc(_, _)
step_oral_formants_casc(c, i) ==
    IF i >= MAX_ORAL_FORMANTS THEN c
    ELSE step_oral_formants_casc(step_oral_formant_casc(c, i), i + 1)

compute_cascade_branch(g, voice) ==
    step_oral_formants_casc(cascade_nasal(cascade_source(g, voice)), 0)

\* compute_parallel_branch up to `let source = parallel_voice + aspiration`
parallel_source(g, voice) ==
    LET f_parms == FrameOf(g.m_parms, unwrap(g.f_parms))
        parallel_voice == FMul(voice, g.f_state.parallel_voicing_lin)
        current_aspiration_mod ==
            current_mod(g, f_parms.parallel_aspiration_mod)
        n == LpNoiseSource_get_next(g.aspiration_source_par)
        aspiration == FMul(FMul(n.y, g.f_state.parallel_aspiration_lin),
                           FSub(One, current_aspiration_mod))
    IN  [g |-> [g EXCEPT !.aspiration_source_par = n.src],
         source |-> Abstract(FAdd(parallel_voice, aspiration)),
         source2 |-> Zero,
         v |-> Zero,
         draws |-> <<[src |-> "aspiration_par", x |-> n.raw]>>]

\* ... up to `let source2 = source_difference + frication_noise`
parallel_source2(c) ==
    LET f_parms == FrameOf(c.g.m_parms, unwrap(c.g.f_parms))
        d == DifferencingFilter_step(c.g.differencing_filter_par, c.source)
        current_frication_mod ==
            current_mod(c.g, f_parms.frication_mod)
        fr == LpNoiseSource_get_next(c.g.frication_source_par)
        frication_noise == FMul(FMul(fr.y, c.g.f_state.frication_lin),
                                FSub(One, current_frication_mod))
    IN  [c EXCEPT !.g.differencing_filter_par = d.flt,
                  !.g.frication_source_par = fr.src,
                  !.source2 = Abstract(FAdd(d.y, frication_noise)),
                  !.draws = Append(@, [src |-> "frication_par", x |-> fr.raw])]

\* v += nasal_formant_par.step(source); v += oral_formant_par[0].step(source)
parallel_nasal_and_f1(c) ==
    LET sn == Resonator_step(c.g.nasal_formant_par, c.source)
        s1 == Resonator_step(c.g.oral_formant_par[1], c.source)
    IN  [c EXCEPT !.g.nasal_formant_par = sn.flt,
                  !.g.oral_formant_par[1] = s1.flt,
                  !.v = FAdd(FAdd(Zero, sn.y), s1.y)]

\* a loop body that adds every formant with the sign +; C18 must tell it
\* from step_oral_formant_par
step_oral_formant_par_unsigned(c, i) ==
    [c EXCEPT !.g.oral_formant_par[i + 1] =
                  Resonator_step(c.g.oral_formant_par[i + 1], c.source2).flt,
              !.v = FAdd(@, Resonator_step(c.g.oral_formant_par[i + 1],
                                           c.source2).y)]

\* v += alternating_sign * oral_formant_par[i].step(source2)
step_oral_formant_par(c, i) ==
    LET alternating_sign == IF i % 2 = 0 THEN One ELSE F(-1)
        st == Resonator_step(c.g.oral_formant_par[i + 1], c.source2)
    IN  [c EXCEPT !.g.oral_formant_par[i + 1] = st.flt,
                  !.v = FAdd(@, FMul(alternating_sign, st.y))]

\* for i in 1..MAX_ORAL_FORMANTS { ... }, from i on
RECURSIVE step_oral_formants_par(_, _)
step_oral_formants_par(c, i) ==
    IF i >= MAX_ORAL_FORMANTS THEN c
    ELSE step_oral_formants_par(step_oral_formant_par(c, i), i + 1)

\* v += parallel_bypass_lin * source2
parallel_bypass(c) ==
    [c EXCEPT !.v = FAdd(@, FMul(c.g.f_state.parallel_bypass_lin, c.source2))]

compute_parallel_branch(g, voice) ==
    parallel_bypass(
        step_oral_formants_par(
            parallel_nasal_and_f1(parallel_source2(parallel_source(g, voice))), 1))

\* voice = tilt_filter.step(voice)
apply_spectral_tilt(s) ==
    LET t == LpFilter1_step(s.g.tilt_filter, Abstract(s.voice))
    IN  [s EXCEPT !.g.tilt_filter = t.flt, !.voice = t.y]

\* breathiness added on every sample, open phase or not; C6 must tell it
\* from add_breathiness
add_breathiness_always(s) ==
    LET w == get_white_noise(s.g.rng)
    IN  [s EXCEPT !.g.rng = w.rng,
                  !.voice = FAdd(@, FMul(Abstract(w.x),
                                         s.g.f_state.breathiness_lin)),
                  !.draws = Append(@, [src |-> "breathiness", x |-> w.x])]

\* if within glottal open phase, add breathiness
add_breathiness(s) ==
    LET p_state == unwrap(s.g.p_state)
        w == get_white_noise(s.g.rng)
    IN  IF p_state.position_in_period < p_state.open_phase_length
        THEN [s EXCEPT !.g.rng = w.rng,
                       !.voice = FAdd(@, FMul(Abstract(w.x),
                                              s.g.f_state.breathiness_lin)),
                       !.draws = Append(@, [src |-> "breathiness", x |-> w.x])]
        ELSE s

\* the sample's record with the fields cascade_out and parallel_out
with_branch_outputs(s, cascade_out, parallel_out) ==
    [g |-> s.g, voice |-> s.voice, draws |-> s.draws,
     cascade_out |-> cascade_out, parallel_out |-> parallel_out]

\* let cascade_out = if f_parms.cascade_enabled { ... } else { 0.0 }
add_cascade_out(s, c) ==
    [with_branch_outputs(s, c.v, Zero) EXCEPT !.g = c.g, !.draws = @ \o c.draws]

cascade_out(s) ==
    IF FrameOf(s.g.m_parms, unwrap(s.g.f_parms)).cascade_enabled
    THEN add_cascade_out(s, compute_cascade_branch(s.g, s.voice))
    ELSE with_branch_outputs(s, Zero, Zero)

\* let parallel_out = if f_parms.parallel_enabled { ... } else { 0.0 }
add_parallel_out(s, c) ==
    [s EXCEPT !.g = c.g, !.parallel_out = c.v, !.draws = @ \o c.draws]

parallel_out(s) ==
    IF FrameOf(s.g.m_parms, unwrap(s.g.f_parms)).parallel_enabled
    THEN add_parallel_out(s, compute_parallel_branch(s.g, s.voice))
    ELSE s

\* out = output_lp_filter.step(cascade_out + parallel_out) * gain_lin
output_sample(s) ==
    LET o == Resonator_step(s.g.output_lp_filter,
                            Abstract(FAdd(s.cascade_out, s.parallel_out)))
    IN  [g |-> [s.g EXCEPT !.output_lp_filter = o.flt],
         y |-> FMul(o.y, s.g.f_state.gain_lin),
         draws |-> s.draws]

\* the generator after the sample, the sample y and the draws made
compute_next_output_signal_sample(g) ==
    output_sample(parallel_out(cascade_out(add_breathiness(
        apply_spectral_tilt(glottal_source(g))))))

\* ------------------------------------------------------------------------
\* poly_real: polynomials are sequences of coefficients in ascending powers,
\* fractions are pairs <<top, bottom>>. eps is an Option; a panic of the
\* program is the result Panic.
\* ------------------------------------------------------------------------

\* 1E-10 as <<n, d1, d2>> for n / (d1 * d2)
EPS == <<1, 100000, 100000>>

Panic == Err("panic", None)

\* x.abs() > eps.unwrap_or(0.0)
abs_gt(x, eps) ==
    IF is_nan(x) THEN FALSE
    ELSE IF is_infinite(x) THEN TRUE
    ELSE IF eps = None THEN x[1] # 0
    ELSE Abs(x[1]) >
         ((unwrap(eps)[1] * x[2]) \div unwrap(eps)[2]) \div unwrap(eps)[3]

\* x.abs() <= eps.unwrap_or(0.0)
abs_le(x, eps) == ~is_nan(x) /\ ~abs_gt(x, eps)

\* `if i <= n { a[i] } else { 0.0 }`
coefficient(a, i, n) == IF i <= n THEN a[i + 1] ELSE Zero

\* max(n1, n2)
max(n1, n2) == IF n1 >= n2 THEN n1 ELSE n2

\* min(n1, n2)
min(n1, n2) == IF n1 <= n2 THEN n1 ELSE n2

\* Returns `true` if two polynomials are equal; indexing an empty slice
\* panics
compare_equal(a1, a2, eps) ==
    IF Len(a1) = 0 \/ Len(a2) = 0 THEN Panic
    ELSE Ok(\A i \in 0 .. max(Len(a1) - 1, Len(a2) - 1) :
               ~abs_gt(FSub(coefficient(a1, i, Len(a1) - 1),
                            coefficient(a2, i, Len(a2) - 1)), eps))

\* the length trim's loop ends with
RECURSIVE trim_len(_, _, _)
trim_len(a, len, eps) ==
    IF len > 0 /\ abs_le(a[len], eps) THEN trim_len(a, len - 1, eps) ELSE len

\* the first len coefficients of a, [0.0] for len = 0
trim_to(a, len) == IF len = 0 THEN Ok(<<Zero>>) ELSE Ok(SubSeq(a, 1, len))

\* Trims top order zero coefficients.
trim(a, eps) ==
    IF Len(a) = 0 THEN Err("Zero length array.", None)
    ELSE IF abs_gt(a[Len(a)], eps) THEN Ok(a)
    ELSE trim_to(a, trim_len(a, Len(a) - 1, eps))

\* Adds two real polynomials; n1 is 0 for an empty a1, and a1[0] panics
add(a1, a2, eps) ==
    IF Len(a1) = 0 \/ Len(a2) = 0 THEN Panic
    ELSE trim([k \in 1 .. max(Len(a1), Len(a2)) |->
                  FAdd(coefficient(a1, k - 1, Len(a1) - 1),
                       coefficient(a2, k - 1, Len(a2) - 1))], eps)

\* t after `for j in j..=p2 { t += a1[j] * a2[i - j]; }`
RECURSIVE multiply_sum(_, _, _, _, _, _)
multiply_sum(a1, a2, i, j, p2, t) ==
    IF j > p2 THEN t
    ELSE multiply_sum(a1, a2, i, j + 1, p2,
                      FAdd(t, FMul(a1[j + 1], a2[i - j + 1])))

\* Multiplies two real polynomials.
multiply(a1, a2, eps) ==
    IF Len(a1) = 0 \/ Len(a2) = 0 THEN Err("Zero len() arrays.", None)
    ELSE IF \/ (Len(a1) = 1 /\ FEq(a1[1], Zero))
            \/ (Len(a2) = 1 /\ FEq(a2[1], Zero))
    THEN Ok(<<Zero>>)
    ELSE trim([k \in 1 .. Len(a1) + Len(a2) - 1 |->
                  multiply_sum(a1, a2, k - 1,
                               IF k - 1 > Len(a2) - 1 THEN k - 1 - (Len(a2) - 1)
                               ELSE 0,
                               min(Len(a1) - 1, k - 1), Zero)], eps)

div_by_real(a, b) == [k \in 1 .. Len(a) |-> FDiv(a[k], b)]

\* one round of divide's outer loop, for r = a[n2 + i] / lc2
divide_step(a, a2, i, r) ==
    [k \in 1 .. Len(a) |->
        IF k - 1 = Len(a2) - 1 + i THEN r
        ELSE IF k - 1 >= i /\ k - 1 < i + Len(a2) - 1
        THEN FSub(a[k], FMul(r, a2[k - i]))
        ELSE a[k]]

\* `for i in (0..=(n1 - n2)).rev() { ... }`, from i down
RECURSIVE divide_loop(_, _, _)
divide_loop(a, a2, i) ==
    IF i < 0 THEN a
    ELSE divide_loop(divide_step(a, a2, i, FDiv(a[Len(a2) + i], a2[Len(a2)])),
                     a2, i - 1)

\* Ok(vec![q, r]) for the results q and r of two fallible steps, in order
pair(q, r) ==
    IF ~IsOk(q) THEN q ELSE IF ~IsOk(r) THEN r ELSE Ok(<<q.v, r.v>>)

\* quotient and remainder out of the array a that divide's loop leaves
divide_result(a, n2, eps) ==
    pair(trim(SubSeq(a, n2 + 1, Len(a)), eps), trim(SubSeq(a, 1, n2), eps))

\* divide for the trimmed polynomials a1 and a2
divide_trimmed(a1, a2, eps) ==
    IF Len(a2) = 1
    THEN (IF FEq(a2[1], Zero) THEN Err("Polynomial division by zero.", None)
          ELSE IF FEq(a2[1], One) THEN Ok(<<a1, <<Zero>>>>)
          ELSE Ok(<<div_by_real(a1, a2[1]), <<Zero>>>>))
    ELSE IF Len(a1) < Len(a2) THEN Ok(<<<<Zero>>, a1>>)
    ELSE divide_result(divide_loop(a1, a2, Len(a1) - Len(a2)), Len(a2) - 1, eps)

\* Divides two real polynomials: [quotient, remainder]
divide(a1r, a2r, eps) ==
    IF Len(a1r) = 0 \/ Len(a2r) = 0 THEN Err("Zero len() arrays.", None)
    ELSE divide_trimmed(trim(a1r, eps).v, trim(a2r, eps).v, eps)

\* Divides the coefficients by the leading coefficient.
make_monic(a) ==
    IF Len(a) = 0 THEN Err("Zero length array.", a)
    ELSE IF FEq(a[Len(a)], One) THEN Ok(a)
    ELSE IF FEq(a[Len(a)], Zero) THEN Err("Leading coefficient is zero.", a)
    ELSE Ok([k \in 1 .. Len(a) |->
                IF k = Len(a) THEN One ELSE FDiv(a[k], a[Len(a)])])

RECURSIVE gcd_loop(_, _, _)

\* the loop of gcd after `make_monic(&mut r)?` has returned m
gcd_next(r2, m, eps) ==
    IF ~IsOk(m) THEN Err(m.err, None) ELSE gcd_loop(r2, m.v, eps)

\* the loop of gcd after `divide(&r1, &r2, eps)?` has returned d
gcd_remainder(r2, d, eps) ==
    IF ~IsOk(d) THEN d
    ELSE IF Len(d.v[2]) = 1 /\ FEq(d.v[2][1], Zero) THEN Ok(r2)
    ELSE gcd_next(r2, make_monic(d.v[2]), eps)

\* the loop of gcd
gcd_loop(r1, r2, eps) ==
    IF Len(r2) < 2 THEN Ok(<<One>>)
    ELSE gcd_remainder(r2, divide(r1, r2, eps), eps)

\* gcd after both make_monic calls have returned m1 and m2
gcd_monic(m1, m2, eps) ==
    IF ~IsOk(m1) THEN Err(m1.err, None)
    ELSE IF ~IsOk(m2) THEN Err(m2.err, None)
    ELSE IF Len(m1.v) < Len(m2.v) THEN gcd_loop(m2.v, m1.v, eps)
    ELSE gcd_loop(m1.v, m2.v, eps)

\* gcd after both trim calls have returned t1 and t2
gcd_trimmed(t1, t2, eps) ==
    IF ~IsOk(t1) THEN t1
    ELSE IF ~IsOk(t2) THEN t2
    ELSE gcd_monic(make_monic(t1.v), make_monic(t2.v), eps)

\* a gcd that gives up on common factors
gcd_always_one(a1, a2, eps) == Ok(<<One>>)

\* Returns the monic GCD (greatest common divisor) of two polynomials.
gcd(a1, a2, eps) == gcd_trimmed(trim(a1, eps), trim(a2, eps), eps)

\* Ok(vec![top, bottom]) for the results of two fallible steps, in order
fraction(top, bottom) == pair(top, bottom)

\* a numerator that leaves out the second product; C13 must tell it from
\* add_products
first_product_only(m1, m2, eps) == m1

\* add(&m1?, &m2?, eps) for the results m1, m2 of the two multiplications
add_products(m1, m2, eps) ==
    IF ~IsOk(m1) THEN m1 ELSE IF ~IsOk(m2) THEN m2 ELSE add(m1.v, m2.v, eps)

\* add_fractions after `gcd(...)?` has returned g
add_fractions_by_gcd(f1, f2, g, eps) ==
    IF ~IsOk(g) THEN g
    ELSE IF Len(g.v) = 1 /\ FEq(g.v[1], One)
    THEN fraction(add_products(multiply(f1[1], f2[2], eps),
                               multiply(f2[1], f1[2], eps), eps),
                  multiply(f1[2], f2[2], eps))
    ELSE Ok(<<<<>>, <<>>>>)

\* add_fractions after compare_equal has returned eq
add_fractions_compared(f1, f2, eq, eps) ==
    IF ~IsOk(eq) THEN eq
    ELSE IF eq.v THEN fraction(add(f1[1], f2[1], eps), Ok(f1[2]))
    ELSE add_fractions_by_gcd(f1, f2, gcd(f1[2], f2[2], eps), eps)

add_fractions(f1, f2, eps) ==
    add_fractions_compared(f1, f2, compare_equal(f1[2], f2[2], eps), eps)

multiply_fractions(f1, f2, eps) ==
    fraction(multiply(f1[1], f2[1], eps), multiply(f1[2], f2[2], eps))

\* the sum of pow(*f, 2.0) over the samples call k wrote, from run i on;
\* buf is a sequence of runs of n equal cells
RECURSIVE sum_of_squares(_, _, _)
sum_of_squares(buf, k, i) ==
    IF i > Len(buf) THEN Zero
    ELSE IF buf[i].call # k THEN sum_of_squares(buf, k, i + 1)
    ELSE FAdd(FMul(F(buf[i].n), FMul(buf[i].v, buf[i].v)),
              sum_of_squares(buf, k, i + 1))

\* buf.len() of the slice handed to call k, from run i on
RECURSIVE slice_len(_, _, _)
slice_len(buf, k, i) ==
    IF i > Len(buf) THEN 0
    ELSE (IF buf[i].call = k THEN buf[i].n ELSE 0) + slice_len(buf, k, i + 1)

\* sqrt of a mean square: not computed for a signal the model does not
\* compute, NaN for NaN
sqrt_of_mean(mean) ==
    IF mean = Unknown \/ ~is_finite(mean) THEN mean ELSE sqrt(mean)

\* sqrt(sum of squares / n) of the samples call k wrote
compute_rms(buf, k) ==
    sqrt_of_mean(FDiv(sum_of_squares(buf, k, 1), F(slice_len(buf, k, 1))))

\* `for b_i in buf.iter_mut() { *b_i *= r; }` on the slice of call k
scale_signal(buf, k, r) ==
    [i \in 1 .. Len(buf) |->
        IF buf[i].call = k THEN [buf[i] EXCEPT !.v = FMul(@, r), !.agc = TRUE]
        ELSE buf[i]]

\* adjust_signal_gain once compute_rms has returned rms
adjust_signal_gain_by(buf, k, target_rms, rms) ==
    IF FEq(rms, Zero) THEN buf ELSE scale_signal(buf, k, FDiv(target_rms, rms))

\* a gain control that leaves every buffer as it is; C15 must tell it from
\* adjust_signal_gain
leave_signal_gain(buf, k, target_rms) == buf

\* adjusts the slice handed to generate_frame by call k
adjust_signal_gain(buf, k, target_rms) ==
    IF slice_len(buf, k, 1) = 0 THEN buf
    ELSE adjust_signal_gain_by(buf, k, target_rms, compute_rms(buf, k))

\* the end of generate_frame: `if f_parms.gain_db.is_nan() {
\* adjust_signal_gain(out_buf, f_parms.agc_rms_level); }` for call k
automatic_gain_control(buf, k, f_parms) ==
    IF is_nan(f_parms.gain_db)
    THEN adjust_signal_gain(buf, k, f_parms.agc_rms_level)
    ELSE buf

\* ------------------------------------------------------------------------
\* The state of a program that uses the generator
\* ------------------------------------------------------------------------

VARIABLES
    generator,  \* the Generator object, None before it is constructed
    pc,         \* "idle", or "frame" inside the sample loop of generate_frame
    call,       \* the arguments and loop position of the generate_frame call
    out_buf,    \* the caller's buffer: its length and the samples written
    result,     \* what the last call returned
    ncalls,     \* number of generate_frame calls made
    draws,      \* the random draws of the last sample computed, in order
    raw_log,    \* the first white-noise values drawn from each random stream
    sound,      \* the locals of generate_sound
    filter,     \* a filter object used on its own
    tf,         \* inputs and result of the transfer-function computation
    pure,       \* arguments and value of a function called on its own
    glottal     \* a glottal source object used on its own

vars == <<generator, pc, call, out_buf, result, ncalls, draws, raw_log,
          sound, filter, tf, pure, glottal>>

REUSE_MSG == "FrameParms structure must not be re-used."

\* a loop that would start a period as soon as a frame is pending; C1 must
\* tell it from need_new_period
need_new_period_or_pending(g) ==
    IF g.p_state = None \/ g.new_f_parms # None THEN TRUE
    ELSE unwrap(g.p_state).position_in_period >= unwrap(g.p_state).period_length

\* the condition under which the sample loop calls start_new_period
need_new_period(g) ==
    IF g.p_state = None THEN TRUE
    ELSE unwrap(g.p_state).position_in_period >= unwrap(g.p_state).period_length

\* the frame-reuse check at the head of generate_frame
is_reused(g, name) ==
    /\ g.f_parms # None
    /\ FrameParms_eq(FrameOf(g.m_parms, unwrap(g.f_parms)), FrameOf(g.m_parms, name))

\* `*out_pos = v` for the cell at index `at` of the buffer, tagged with the
\* frame in use and the call that wrote it; equal neighbouring cells are
\* kept as one run of n cells
write_sample(buf, at, v, name, k) ==
    LET n == Len(buf.runs)
        cell == [at |-> at, n |-> 1, v |-> v, f_parms |-> name, call |-> k,
                 agc |-> FALSE]
    IN  IF /\ n > 0
           /\ buf.runs[n].at + buf.runs[n].n = at
           /\ [buf.runs[n] EXCEPT !.at = at, !.n = 1] = cell
        THEN [buf EXCEPT !.runs[n].n = @ + 1]
        ELSE [buf EXCEPT !.runs = Append(@, cell)]

\* the random stream a draw comes from: the generator's own rng serves the
\* glottal noise and the breathiness
StreamOf(src) ==
    IF src \in {"glottal_noise", "breathiness"} THEN "rng" ELSE src

\* raw_log after the draws ds, which keeps RawLogLen values of each stream
log_draws(log, ds) ==
    [s \in DOMAIN log |->
        LET mine == SelectSeq(ds, LAMBDA d : StreamOf(d.src) = s)
            all == log[s] \o [i \in 1 .. Len(mine) |-> mine[i].x]
        IN  SubSeq(all, 1, IF Len(all) < RawLogLen THEN Len(all) ELSE RawLogLen)]


\* ------------------------------------------------------------------------
\* Spec: a caller constructs a generator and calls generate_frame
\* ------------------------------------------------------------------------

\* sample rates, source types and random seeds of the callers modelled
SampleRates == {12000}
Seeds == {0}

NoCall == [f_parms |-> "", len |-> 0, pos |-> 0, start |-> 0, prev |-> None,
           entry |-> None]
NoSound == [state |-> "off", m_parms |-> None, f_parms_a |-> <<>>, i |-> 0,
            out_buf_len |-> 0, out_buf_pos |-> 0]
EmptyLog == [s \in {"rng", "aspiration_casc", "aspiration_par", "frication_par"}
               |-> <<>>]

Init ==
    /\ \E sr \in SampleRates, t \in GlottalSourceType, seed \in Seeds :
          generator = Generator_new([sample_rate |-> sr,
                                     glottal_source_type |-> t], seed).v
    /\ pc = "idle"
    /\ call = NoCall
    /\ out_buf = [len |-> 0, runs |-> <<>>]
    /\ result = Ok("new")
    /\ ncalls = 0
    /\ draws = <<>>
    /\ raw_log = EmptyLog
    /\ sound = NoSound
    /\ filter = None
    /\ tf = None
    /\ pure = None
    /\ glottal = None

\* generate_frame up to its sample loop, on the slice [start, start + len)
\* of the buffer
enter_generate_frame(name, start, len) ==
    /\ ncalls' = ncalls + 1
    /\ call' = [f_parms |-> name, len |-> len, pos |-> 0, start |-> start,
                prev |-> IF ncalls = 0 THEN None ELSE Some(call.f_parms),
                \* the generator as the call found it
                entry |-> Some(generator)]
    /\ draws' = <<>>
    /\ IF is_reused(generator, name)
       THEN /\ result' = Err(REUSE_MSG, "")
            /\ pc' = "idle"
            /\ UNCHANGED generator
       ELSE /\ generator' = [generator EXCEPT !.new_f_parms = Some(name)]
            /\ pc' = "frame"
            /\ UNCHANGED result

\* The caller calls generate_frame with a buffer of its own
GenerateFrame(name, len) ==
    /\ pc = "idle"
    /\ sound.state = "off"
    /\ generator # None
    /\ ncalls < MaxCalls
    /\ out_buf' = [len |-> len, runs |-> <<>>]
    /\ enter_generate_frame(name, 0, len)
    /\ UNCHANGED <<raw_log, sound, filter, tf, pure, glottal>>

\* the sample loop's call of start_new_period, when it makes one
period_check(g) ==
    IF need_new_period(g) THEN start_new_period(g) ELSE Ok(g)

\* generate_frame returns from within the loop with the error of r
FrameError(r) ==
    /\ generator' = r.v
    /\ result' = Err(r.err, "")
    /\ pc' = "idle"
    /\ UNCHANGED <<call, out_buf, draws, raw_log>>

\* the loop body after the period check: s is the computed sample
WriteSample(s) ==
    /\ generator' = [s.g EXCEPT !.p_state[1].position_in_period = @ + 1,
                                !.abs_position = @ + 1]
    /\ out_buf' = write_sample(out_buf, call.start + call.pos, s.y,
                               unwrap(s.g.f_parms), ncalls)
    /\ call' = [call EXCEPT !.pos = @ + 1]
    /\ draws' = s.draws
    /\ raw_log' = log_draws(raw_log, s.draws)
    /\ UNCHANGED <<result, pc>>

\* One iteration of the sample loop of generate_frame
SampleStep ==
    /\ pc = "frame"
    /\ call.pos < call.len
    /\ \E r \in {period_check(generator)} :
          IF ~IsOk(r) THEN FrameError(r)
          ELSE \E s \in {compute_next_output_signal_sample(r.v)} : WriteSample(s)
    /\ UNCHANGED <<ncalls, sound, filter, tf, pure, glottal>>

\* The end of generate_frame: automatic gain control, Ok(())
FrameReturn ==
    /\ pc = "frame"
    /\ call.pos = call.len
    /\ out_buf' = [out_buf EXCEPT !.runs =
                      automatic_gain_control(
                          @, ncalls, FrameOf(generator.m_parms, call.f_parms))]
    /\ result' = Ok("")
    /\ pc' = "idle"
    /\ UNCHANGED <<generator, call, ncalls, draws, raw_log, sound, filter, tf, pure, glottal>>

Next ==
    \/ \E name \in FrameNames, len \in 0 .. MaxBufLen : GenerateFrame(name, len)
    \/ SampleStep
    \/ FrameReturn

Spec == Init /\ [][Next]_vars


\* ------------------------------------------------------------------------
\* SpecSound: generate_sound
\* ------------------------------------------------------------------------

SoundSampleRates == {2004}
SoundFrameNames == {"FA", "FB", "FZero", "FBad"}
SoundInputs ==
    UNION {[1 .. n -> SoundFrameNames] : n \in 0 .. MaxFrames}

\* out_buf_len after the first loop of generate_sound over names[i..]
RECURSIVE sound_out_buf_len(_, _, _)
sound_out_buf_len(m_parms, names, i) ==
    IF i > Len(names) THEN 0
    ELSE FrameOf(m_parms, names[i]).duration * m_parms.sample_rate
         + sound_out_buf_len(m_parms, names, i + 1)

\* a frame length that forgets the sample rate; C2 must tell it from
\* sound_frame_len
sound_frame_len_in_seconds(m_parms, name) == FrameOf(m_parms, name).duration

\* frame_len in the second loop of generate_sound
sound_frame_len(m_parms, name) ==
    FrameOf(m_parms, name).duration * m_parms.sample_rate

\* generate_sound up to its second loop
InitSound ==
    /\ \E sr \in SoundSampleRates, f_parms_a \in SoundInputs, seed \in Seeds :
          LET m_parms == [sample_rate |-> sr, glottal_source_type |-> "Impulsive"]
              len == sound_out_buf_len(m_parms, f_parms_a, 1)
          IN  /\ generator = Generator_new(m_parms, seed).v
              /\ sound = [state |-> "run", m_parms |-> Some(m_parms),
                          f_parms_a |-> f_parms_a, i |-> 0,
                          out_buf_len |-> len, out_buf_pos |-> 0]
              /\ out_buf = [len |-> len, runs |-> <<>>]
    /\ pc = "idle"
    /\ call = NoCall
    /\ result = Ok("new")
    /\ ncalls = 0
    /\ draws = <<>>
    /\ raw_log = EmptyLog
    /\ filter = None
    /\ tf = None
    /\ pure = None
    /\ glottal = None

\* The second loop of generate_sound calls generate_frame on the next slice
SoundFrame ==
    /\ pc = "idle"
    /\ sound.state = "run"
    /\ sound.i < Len(sound.f_parms_a)
    /\ LET name == sound.f_parms_a[sound.i + 1]
           frame_len == sound_frame_len(generator.m_parms, name)
       IN  IF sound.out_buf_pos + frame_len > out_buf.len
           THEN /\ sound' = [sound EXCEPT !.state = "panic"]
                /\ UNCHANGED <<generator, pc, call, result, ncalls, draws>>
           ELSE /\ sound' = [sound EXCEPT !.state = "called"]
                /\ enter_generate_frame(name, sound.out_buf_pos, frame_len)
    /\ UNCHANGED <<out_buf, raw_log, filter, tf, pure, glottal>>

\* generate_frame returned: `?`, then out_buf_pos += frame_len
SoundAdvance ==
    /\ pc = "idle"
    /\ sound.state = "called"
    /\ sound' = IF IsOk(result)
                THEN [sound EXCEPT !.state = "run", !.i = @ + 1,
                                   !.out_buf_pos = @ + call.len]
                ELSE [sound EXCEPT !.state = "err"]
    /\ UNCHANGED <<generator, pc, call, out_buf, result, ncalls, draws,
                   raw_log, filter, tf, pure, glottal>>

\* Ok(out_buf)
SoundReturn ==
    /\ pc = "idle"
    /\ sound.state = "run"
    /\ sound.i = Len(sound.f_parms_a)
    /\ sound' = [sound EXCEPT !.state = "ok"]
    /\ UNCHANGED <<generator, pc, call, out_buf, result, ncalls, draws,
                   raw_log, filter, tf, pure, glottal>>

NextSound ==
    \/ SoundFrame
    \/ SampleStep
    \/ FrameReturn
    \/ SoundAdvance
    \/ SoundReturn

SpecSound == InitSound /\ [][NextSound]_vars


\* ------------------------------------------------------------------------
\* Transfer function
\* ------------------------------------------------------------------------

\* the transfer function of a filter whose setter has returned r
LpFilter1_trans(r) ==
    IF ~IsOk(r) THEN Err(r.err, None)
    ELSE Ok(LpFilter1_get_transfer_function_coefficients(r.v))

Resonator_trans(r) ==
    IF ~IsOk(r) THEN Err(r.err, None)
    ELSE Ok(Resonator_get_transfer_function_coefficients(r.v))

AntiResonator_trans(r) ==
    IF ~IsOk(r) THEN Err(r.err, None)
    ELSE Ok(AntiResonator_get_transfer_function_coefficients(r.v))

\* multiply_fractions(&v, &t?, eps)? for the result v so far
then_multiply(v, t, eps) ==
    IF ~IsOk(v) THEN v
    ELSE IF ~IsOk(t) THEN t
    ELSE multiply_fractions(v.v, t.v, eps)

\* add_fractions(&v, &t?, eps)? for the result v so far
then_add(v, t, eps) ==
    IF ~IsOk(v) THEN v
    ELSE IF ~IsOk(t) THEN t
    ELSE add_fractions(v.v, t.v, eps)

\* vec![vec![x], vec![1.0]]
constant_fraction(x) == <<<<x>>, <<One>>>>

\* the loop of get_cascade_branch_transfer_function_coefficients, from i on
RECURSIVE cascade_oral_formants_trans(_, _, _, _)
cascade_oral_formants_trans(v, m_parms, f_parms, i) ==
    IF ~IsOk(v) \/ i >= MAX_ORAL_FORMANTS THEN v
    ELSE cascade_oral_formants_trans(
             then_multiply(
                 v,
                 Resonator_trans(
                     set_oral_formant_casc(Resonator_new(m_parms.sample_rate),
                                           f_parms, i)),
                 Some(EPS)),
             m_parms, f_parms, i + 1)

get_cascade_branch_transfer_function_coefficients(m_parms, f_parms) ==
    cascade_oral_formants_trans(
        then_multiply(
            then_multiply(
                Ok(constant_fraction(db_to_lin(f_parms.cascade_voicing_db))),
                AntiResonator_trans(
                    set_nasal_antiformant_casc(
                        AntiResonator_new(m_parms.sample_rate), f_parms)),
                Some(EPS)),
            Resonator_trans(
                set_nasal_formant_casc(Resonator_new(m_parms.sample_rate), f_parms)),
            Some(EPS)),
        m_parms, f_parms, 0)

\* v2 of the parallel loop for the formant's transfer function t
parallel_formant_out(formant_in, t, i) ==
    then_multiply(then_multiply(formant_in, t, Some(EPS)),
                  Ok(constant_fraction(IF i % 2 = 0 THEN One ELSE F(-1))),
                  Some(EPS))

\* the loop of get_parallel_branch_transfer_function_coefficients, from i on
RECURSIVE parallel_oral_formants_trans(_, _, _, _, _, _)
parallel_oral_formants_trans(v, source, source2, m_parms, f_parms, i) ==
    IF ~IsOk(v) \/ i >= MAX_ORAL_FORMANTS THEN v
    ELSE parallel_oral_formants_trans(
             then_add(
                 v,
                 parallel_formant_out(
                     IF i = 0 THEN source ELSE source2,
                     Resonator_trans(
                         set_oral_formant_par(Resonator_new(m_parms.sample_rate),
                                              m_parms, f_parms, i)),
                     i),
                 Some(EPS)),
             source, source2, m_parms, f_parms, i + 1)

\* the function after source2 is computed
parallel_branch_trans(source, source2, m_parms, f_parms) ==
    IF ~IsOk(source2) THEN source2
    ELSE then_add(
             parallel_oral_formants_trans(
                 then_add(
                     Ok(constant_fraction(Zero)),
                     then_multiply(
                         source,
                         Resonator_trans(
                             set_nasal_formant_par(
                                 Resonator_new(m_parms.sample_rate), f_parms)),
                         None),
                     Some(EPS)),
                 source, source2, m_parms, f_parms, 0),
             then_multiply(
                 source2,
                 Ok(constant_fraction(db_to_lin(f_parms.parallel_bypass_db))),
                 Some(EPS)),
             Some(EPS))

\* the function for `source`
parallel_branch_of_source(source, m_parms, f_parms) ==
    parallel_branch_trans(
        source,
        then_multiply(source,
                      Ok(DifferencingFilter_get_transfer_function_coefficients),
                      Some(EPS)),
        m_parms, f_parms)

get_parallel_branch_transfer_function_coefficients(m_parms, f_parms) ==
    parallel_branch_of_source(
        Ok(constant_fraction(db_to_lin(f_parms.parallel_voicing_db))),
        m_parms, f_parms)

\* the overall function after `voice` is computed
vocal_tract_trans(voice, m_parms, f_parms) ==
    then_multiply(
        then_multiply(
            then_multiply(
                voice,
                then_add(
                    IF f_parms.cascade_enabled
                    THEN get_cascade_branch_transfer_function_coefficients(
                             m_parms, f_parms)
                    ELSE Ok(constant_fraction(Zero)),
                    IF f_parms.parallel_enabled
                    THEN get_parallel_branch_transfer_function_coefficients(
                             m_parms, f_parms)
                    ELSE Ok(constant_fraction(Zero)),
                    Some(EPS)),
                Some(EPS)),
            Resonator_trans(
                Resonator_set(Resonator_new(m_parms.sample_rate), Zero,
                              Q(m_parms.sample_rate, 2), One)),
            Some(EPS)),
        Ok(constant_fraction(
               db_to_lin(IF is_finite(f_parms.gain_db) THEN f_parms.gain_db
                         ELSE Zero))),
        Some(EPS))

get_vocal_tract_transfer_function_coefficients(m_parms, f_parms) ==
    vocal_tract_trans(
        then_multiply(
            Ok(constant_fraction(One)),
            LpFilter1_trans(
                set_tilt_filter(LpFilter1_new(m_parms.sample_rate), f_parms.tilt_db)),
            Some(EPS)),
        m_parms, f_parms)


\* ------------------------------------------------------------------------
\* SpecFilter: a caller uses one filter object on its own
\* ------------------------------------------------------------------------

FilterKinds == {"LpFilter1", "Resonator", "AntiResonator"}
FilterSampleRates == {12000}
\* arguments of set: frequencies, bandwidths, gains; signal values of step
FilterFreqs == {Zero, F(3000), F(6000), F(-1), NaN, PosInf}
FilterBws == {Zero, F(2648), NaN}
FilterGains == {Zero, Q(1, 10), One, NaN}
FilterInputs == {Zero, One, Q(-1, 2)}

Filter_new(kind, sample_rate) ==
    CASE kind = "LpFilter1" -> LpFilter1_new(sample_rate)
      [] kind = "Resonator" -> Resonator_new(sample_rate)
      [] kind = "AntiResonator" -> AntiResonator_new(sample_rate)

\* set with the arguments the kind of filter takes
Filter_set(kind, flt, f, bw, g) ==
    CASE kind = "LpFilter1" -> LpFilter1_set(flt, f, g, One)
      [] kind = "Resonator" -> Resonator_set(flt, f, bw, g)
      [] kind = "AntiResonator" -> AntiResonator_set(flt, f, bw)

Filter_set_passthrough(kind, flt) ==
    CASE kind = "LpFilter1" -> LpFilter1_set_passthrough(flt)
      [] kind = "Resonator" -> Resonator_set_passthrough(flt)
      [] kind = "AntiResonator" -> AntiResonator_set_passthrough(flt)

Filter_set_mute(kind, flt) ==
    CASE kind = "LpFilter1" -> LpFilter1_set_mute(flt)
      [] kind = "Resonator" -> Resonator_set_mute(flt)
      [] kind = "AntiResonator" -> AntiResonator_set_mute(flt)

Filter_step(kind, flt, x) ==
    CASE kind = "LpFilter1" -> LpFilter1_step(flt, x)
      [] kind = "Resonator" -> Resonator_step(flt, x)
      [] kind = "AntiResonator" -> AntiResonator_step(flt, x)

\* the delay line of a filter
Filter_delay(kind, flt) ==
    CASE kind = "LpFilter1" -> <<flt.y1>>
      [] kind = "Resonator" -> <<flt.y1, flt.y2>>
      [] kind = "AntiResonator" -> <<flt.x1, flt.x2>>

InitFilter ==
    /\ \E kind \in FilterKinds, sr \in FilterSampleRates :
          filter = Some([kind |-> kind, flt |-> Filter_new(kind, sr), ops |-> 0,
                         last |-> None])
    /\ generator = None
    /\ pc = "idle"
    /\ call = NoCall
    /\ out_buf = [len |-> 0, runs |-> <<>>]
    /\ result = Ok("new")
    /\ ncalls = 0
    /\ draws = <<>>
    /\ raw_log = EmptyLog
    /\ sound = NoSound
    /\ tf = None
    /\ pure = None
    /\ glottal = None

\* the filter object after an operation that is no step; `result` keeps
\* what the operation returned, and for set the arguments of the call
filter_after(flt, r) ==
    /\ filter' = Some([unwrap(filter) EXCEPT !.flt = flt, !.ops = @ + 1,
                                             !.last = None])
    /\ result' = r
    /\ UNCHANGED <<generator, pc, call, out_buf, ncalls, draws, raw_log, sound, tf, pure, glottal>>

FilterSet(f, bw, g) ==
    /\ filter # None
    /\ unwrap(filter).ops < MaxFilterOps
    /\ \E r \in {Filter_set(unwrap(filter).kind, unwrap(filter).flt, f, bw, g)} :
          filter_after(r.v, [r EXCEPT !.v = <<f, bw, g>>])

FilterSetPassthrough ==
    /\ filter # None
    /\ unwrap(filter).ops < MaxFilterOps
    /\ filter_after(Filter_set_passthrough(unwrap(filter).kind, unwrap(filter).flt),
                    Ok(""))

FilterSetMute ==
    /\ filter # None
    /\ unwrap(filter).ops < MaxFilterOps
    /\ filter_after(Filter_set_mute(unwrap(filter).kind, unwrap(filter).flt),
                    Ok(""))

\* step(x): `last` keeps the argument, the value returned and the filter as
\* it was before the call
FilterStep(x) ==
    /\ filter # None
    /\ unwrap(filter).ops < MaxFilterOps
    /\ \E st \in {Filter_step(unwrap(filter).kind, unwrap(filter).flt, x)} :
          filter' = Some([unwrap(filter) EXCEPT
                            !.flt = st.flt, !.ops = @ + 1,
                            !.last = Some([x |-> x, y |-> st.y,
                                           before |-> unwrap(filter).flt])])
    /\ UNCHANGED <<generator, pc, call, out_buf, result, ncalls, draws, raw_log,
                   sound, tf, pure, glottal>>

\* gains handed to adjust_impulse_gain and adjust_peak_gain
FilterAdjustGains == {Zero, F(2)}

\* Resonator::adjust_impulse_gain(new_a)
FilterAdjustImpulseGain(new_a) ==
    /\ filter # None
    /\ unwrap(filter).kind = "Resonator"
    /\ unwrap(filter).ops < MaxFilterOps
    /\ filter_after(Resonator_adjust_impulse_gain(unwrap(filter).flt, new_a),
                    Ok(""))

\* Resonator::adjust_peak_gain(peak_gain)
FilterAdjustPeakGain(peak_gain) ==
    /\ filter # None
    /\ unwrap(filter).kind = "Resonator"
    /\ unwrap(filter).ops < MaxFilterOps
    /\ \E r \in {Resonator_adjust_peak_gain(unwrap(filter).flt, peak_gain)} :
          filter_after(r.v, [r EXCEPT !.v = ""])

NextFilter ==
    \/ \E f \in FilterFreqs, bw \in FilterBws, g \in FilterGains : FilterSet(f, bw, g)
    \/ FilterSetPassthrough
    \/ FilterSetMute
    \/ \E new_a \in FilterAdjustGains : FilterAdjustImpulseGain(new_a)
    \/ \E peak_gain \in FilterAdjustGains : FilterAdjustPeakGain(peak_gain)
    \/ \E x \in FilterInputs : FilterStep(x)

SpecFilter == InitFilter /\ [][NextFilter]_vars

\* ------------------------------------------------------------------------
\* SpecTF: get_vocal_tract_transfer_function_coefficients on frames whose
\* parameters are valid one by one
\* ------------------------------------------------------------------------

TFSampleRates == {12000}

\* the oral formants a frame can list: frequency, bandwidth, level in dB
TFFormant(sr, kind) ==
    CASE kind = "quarter" -> [freq |-> F(sr \div 4), bw |-> BaseFrame(sr).oral_formant_bw[1],
                              db |-> Zero]
      [] kind = "sixth" -> [freq |-> F(sr \div 6), bw |-> BaseFrame(sr).oral_formant_bw[1],
                            db |-> Zero]

TFFormantKinds == {"quarter", "sixth"}

\* nasal formant: not given, given, or given with a level that mutes it in
\* the parallel branch
TFNasalKinds == {"none", "given", "muted_in_parallel"}

TFInputs ==
    [cascade_enabled : BOOLEAN, parallel_enabled : BOOLEAN, nasal : TFNasalKinds,
     oral : UNION {[1 .. n -> TFFormantKinds] : n \in 0 .. MaxOral}]

\* the frame of an input
TFFrame(sr, inp) ==
    [BaseFrame(sr) EXCEPT
        !.cascade_enabled = inp.cascade_enabled,
        !.parallel_enabled = inp.parallel_enabled,
        !.nasal_formant_freq = IF inp.nasal = "none" THEN @ ELSE F(sr \div 3),
        !.nasal_formant_bw = IF inp.nasal = "none" THEN @
                             ELSE BaseFrame(sr).oral_formant_bw[1],
        !.nasal_formant_db = IF inp.nasal = "muted_in_parallel" THEN F(-99) ELSE Zero,
        !.oral_formant_freq = [i \in 1 .. Len(inp.oral) |-> TFFormant(sr, inp.oral[i]).freq],
        !.oral_formant_bw = [i \in 1 .. Len(inp.oral) |-> TFFormant(sr, inp.oral[i]).bw],
        !.oral_formant_db = [i \in 1 .. Len(inp.oral) |-> TFFormant(sr, inp.oral[i]).db]]

InitTF ==
    /\ \E sr \in TFSampleRates, inp \in TFInputs :
          tf = Some([m_parms |-> [sample_rate |-> sr,
                                  glottal_source_type |-> "Impulsive"],
                     input |-> inp, result |-> None])
    /\ generator = None
    /\ pc = "idle"
    /\ call = NoCall
    /\ out_buf = [len |-> 0, runs |-> <<>>]
    /\ result = Ok("new")
    /\ ncalls = 0
    /\ draws = <<>>
    /\ raw_log = EmptyLog
    /\ sound = NoSound
    /\ filter = None
    /\ pure = None
    /\ glottal = None

\* The caller computes the transfer function of its frame
TransferFunction ==
    /\ tf # None
    /\ unwrap(tf).result = None
    /\ tf' = Some([unwrap(tf) EXCEPT !.result =
                      Some(get_vocal_tract_transfer_function_coefficients(
                               unwrap(tf).m_parms,
                               TFFrame(unwrap(tf).m_parms.sample_rate,
                                       unwrap(tf).input)))])
    /\ UNCHANGED <<generator, pc, call, out_buf, result, ncalls, draws, raw_log,
                   sound, filter, pure, glottal>>

NextTF == TransferFunction

SpecTF == InitTF /\ [][NextTF]_vars


\* ------------------------------------------------------------------------
\* Properties
\* ------------------------------------------------------------------------

\* the coefficients and mode of a filter: the filter without its delay line
LpFilter1_view(flt) == [flt EXCEPT !.y1 = Zero]
Resonator_view(flt) == [flt EXCEPT !.y1 = Zero, !.y2 = Zero]
AntiResonator_view(flt) == [flt EXCEPT !.x1 = Zero, !.x2 = Zero]

\* what a frame determines in a generator: the active frame, the linear
\* gains derived from it, and every filter's coefficients and mode
FrameView(g) ==
    [f_parms |-> g.f_parms,
     f_state |-> g.f_state,
     tilt_filter |-> LpFilter1_view(g.tilt_filter),
     output_lp_filter |-> Resonator_view(g.output_lp_filter),
     aspiration_source_casc |-> LpFilter1_view(g.aspiration_source_casc.lp_filter),
     aspiration_source_par |-> LpFilter1_view(g.aspiration_source_par.lp_filter),
     frication_source_par |-> LpFilter1_view(g.frication_source_par.lp_filter),
     nasal_formant_casc |-> Resonator_view(g.nasal_formant_casc),
     nasal_antiformant_casc |-> AntiResonator_view(g.nasal_antiformant_casc),
     oral_formant_casc |->
         [i \in 1 .. MAX_ORAL_FORMANTS |-> Resonator_view(g.oral_formant_casc[i])],
     nasal_formant_par |-> Resonator_view(g.nasal_formant_par),
     oral_formant_par |->
         [i \in 1 .. MAX_ORAL_FORMANTS |-> Resonator_view(g.oral_formant_par[i])]]

\* the sample about to be computed is the first of a period
AtPeriodBoundary ==
    \/ generator.p_state = None
    \/ unwrap(generator.p_state).position_in_period
         >= unwrap(generator.p_state).period_length

\* C1: the active frame, the linear gains and every filter's coefficients
\* and mode change only in a step of the sample loop taken at a period
\* boundary (no period state yet, or position_in_period >= period_length);
\* a sample computed inside a period leaves the pending frame pending and
\* is computed with the frame that was active before it.
C1_FrameChangesOnlyAtPeriodBoundary ==
    [][/\ FrameView(generator') # FrameView(generator)
            => pc = "frame" /\ AtPeriodBoundary
       /\ (pc = "frame" /\ ~AtPeriodBoundary /\ call'.pos = call.pos + 1)
            => /\ generator'.new_f_parms = generator.new_f_parms
               /\ out_buf'.runs[Len(out_buf'.runs)].f_parms
                    = unwrap(generator.f_parms)]_vars

\* C1 witness: a sample of the call was written while the call's frame was
\* still pending behind another active frame
C1_PendingFrameWitness ==
    /\ pc = "frame"
    /\ call.pos > 0
    /\ generator.new_f_parms = Some(call.f_parms)
    /\ generator.f_parms # None
    /\ generator.f_parms # Some(call.f_parms)

\* samples per frame, summed over the first k frames
RECURSIVE SamplesBefore(_, _, _)
SamplesBefore(m_parms, names, k) ==
    IF k = 0 THEN 0
    ELSE SamplesBefore(m_parms, names, k - 1)
         + FrameOf(m_parms, names[k]).duration * m_parms.sample_rate

\* the runs of the buffer that call k wrote
RunsOf(k) == {j \in 1 .. Len(out_buf.runs) : out_buf.runs[j].call = k}

\* C2: when generate_sound returns Ok, the buffer has sum(duration_i *
\* sample_rate) cells, the cells were written in increasing order without
\* overlap, and frame k wrote exactly the cells from the sum over the
\* frames before it up to the sum including it.
C2_SoundBufferLayout ==
    sound.state = "ok" =>
        LET m_parms == unwrap(sound.m_parms)
            names == sound.f_parms_a
            runs == out_buf.runs
        IN  /\ out_buf.len = SamplesBefore(m_parms, names, Len(names))
            /\ \A j \in 1 .. Len(runs) - 1 :
                  /\ runs[j].at + runs[j].n <= runs[j + 1].at
                  /\ runs[j].call <= runs[j + 1].call
            /\ \A k \in 1 .. Len(names) :
                  /\ \A j \in RunsOf(k) :
                        /\ runs[j].at >= SamplesBefore(m_parms, names, k - 1)
                        /\ runs[j].at + runs[j].n <= SamplesBefore(m_parms, names, k)
                  /\ \A at \in SamplesBefore(m_parms, names, k - 1)
                                 .. SamplesBefore(m_parms, names, k) - 1 :
                        \E j \in RunsOf(k) :
                            runs[j].at <= at /\ at < runs[j].at + runs[j].n
            /\ \A j \in 1 .. Len(runs) : runs[j].call \in 1 .. Len(names)

\* C2 witness: generate_sound returned Ok for two frames that each wrote
\* samples
C2_TwoFramesWitness ==
    /\ sound.state = "ok"
    /\ Len(sound.f_parms_a) >= 2
    /\ RunsOf(1) # {}
    /\ RunsOf(2) # {}

\* C3: a call whose frame is the frame of the call before it is rejected
\* with the reuse error and writes no sample.
C3_ReusedFrameRejected ==
    (ncalls > 0 /\ call.prev = Some(call.f_parms))
        => /\ pc = "idle"
           /\ result = Err(REUSE_MSG, "")
           /\ call.pos = 0

\* C4: a generate_frame call that returned the error of an invalid filter
\* parameter has written no sample.
C4_ErrorBeforeAnySample ==
    (ncalls > 0 /\ pc = "idle" /\ ~IsOk(result) /\ result.err # REUSE_MSG)
        => call.pos = 0 /\ out_buf.runs = <<>>

\* C5: the transfer function of a frame whose parameters are valid one by
\* one is Ok, with a non-empty numerator and a non-empty denominator that
\* is not the zero polynomial.
C5_TransferFunctionWellFormed ==
    (tf # None /\ unwrap(tf).result # None)
        => /\ IsOk(unwrap(unwrap(tf).result))
           /\ Len(unwrap(unwrap(tf).result).v[1]) > 0
           /\ Len(unwrap(unwrap(tf).result).v[2]) > 0
           /\ \E k \in DOMAIN unwrap(unwrap(tf).result).v[2] :
                 FNe(unwrap(unwrap(tf).result).v[2][k], Zero)

\* the sources of a sequence of draws
Labels(ds) == [i \in 1 .. Len(ds) |-> ds[i].src]

\* a sample was computed by the call and the generator is as the sample
\* left it
SampleComputed == call.pos > 0 /\ ~(pc = "idle" /\ ~IsOk(result))

\* the draws of a sample in the order of the program text; the sample's
\* position in the period is one less than the generator's
ProgramDraws ==
    (IF generator.m_parms.glottal_source_type = "Noise"
     THEN <<"glottal_noise">> ELSE <<>>)
    \o (IF unwrap(generator.p_state).position_in_period - 1
             < unwrap(generator.p_state).open_phase_length
        THEN <<"breathiness">> ELSE <<>>)
    \o (IF FrameOf(generator.m_parms, unwrap(generator.f_parms)).cascade_enabled
        THEN <<"aspiration_casc">> ELSE <<>>)
    \o (IF FrameOf(generator.m_parms, unwrap(generator.f_parms)).parallel_enabled
        THEN <<"aspiration_par", "frication_par">> ELSE <<>>)

\* C6 (as the code has it): per sample the draws are glottal noise (Noise
\* source only), breathiness (only inside the open phase of the period),
\* cascade aspiration (only if the cascade branch is enabled), parallel
\* aspiration and frication (only if the parallel branch is enabled), in
\* this order.
C6_DrawsInProgramOrder ==
    SampleComputed => Labels(draws) = ProgramDraws

\* C6 witness: a sample that drew from all five sources
C6_AllDrawsWitness ==
    /\ SampleComputed
    /\ Labels(draws) = <<"glottal_noise", "breathiness", "aspiration_casc",
                         "aspiration_par", "frication_par">>

\* C6 as stated: every sample draws cascade aspiration, parallel
\* aspiration, frication, breathiness and, with the Noise source, glottal
\* noise, in this order.
C6_DrawsInStatedOrder ==
    SampleComputed =>
        Labels(draws) =
            <<"aspiration_casc", "aspiration_par", "frication_par", "breathiness">>
            \o (IF generator.m_parms.glottal_source_type = "Noise"
                THEN <<"glottal_noise">> ELSE <<>>)

\* C7: the raw white-noise sequences of the three noise sources are not
\* copies of one another.
C7_NoiseSourcesIndependent ==
    (/\ Len(raw_log["aspiration_casc"]) = RawLogLen
     /\ Len(raw_log["aspiration_par"]) = RawLogLen
     /\ Len(raw_log["frication_par"]) = RawLogLen)
        => /\ raw_log["aspiration_casc"] # raw_log["aspiration_par"]
           /\ raw_log["aspiration_casc"] # raw_log["frication_par"]
           /\ raw_log["aspiration_par"] # raw_log["frication_par"]

\* one of the oral-formant arrays of the frame has no entry i (0-based)
EntryMissing(f_parms, i) ==
    \/ i >= Len(f_parms.oral_formant_freq)
    \/ i >= Len(f_parms.oral_formant_bw)
    \/ i >= Len(f_parms.oral_formant_db)

\* the call's frame was activated and the call returned an error
ActivationFailed ==
    /\ pc = "idle"
    /\ ~IsOk(result)
    /\ result.err # REUSE_MSG
    /\ generator.f_parms = Some(call.f_parms)

\* C9: for an active frame whose given entries are valid, a missing oral
\* formant entry i means that the activation succeeded, cascade filter i
\* is in passthrough and parallel filter i is muted.
C9_MissingEntryDisablesFormant ==
    (generator # None /\ generator.f_parms # None
     /\ generator.f_parms # Some("FBad"))
        => \A i \in 0 .. MAX_ORAL_FORMANTS - 1 :
              EntryMissing(FrameOf(generator.m_parms, unwrap(generator.f_parms)), i)
                 => /\ ~ActivationFailed
                    /\ generator.oral_formant_casc[i + 1].passthrough
                    /\ generator.oral_formant_par[i + 1].muted

\* C10: a step of a filter in passthrough mode returns its argument, a
\* step of a muted filter returns 0, and both leave the delay line as it
\* was.
C10_ModesBypassTheFilter ==
    (filter # None /\ unwrap(filter).last # None)
        => LET f == unwrap(filter)
               last == unwrap(f.last)
           IN  /\ last.before.passthrough
                    => /\ last.y = last.x
                       /\ Filter_delay(f.kind, f.flt)
                            = Filter_delay(f.kind, last.before)
               /\ (~last.before.passthrough /\ last.before.muted)
                    => /\ last.y = Zero
                       /\ Filter_delay(f.kind, f.flt)
                            = Filter_delay(f.kind, last.before)

\* C10 witness: a muted filter with non-zero coefficients was stepped with
\* a non-zero argument
C10_MutedStepWitness ==
    /\ filter # None
    /\ unwrap(filter).last # None
    /\ unwrap(unwrap(filter).last).before.muted
    /\ FNe(unwrap(unwrap(filter).last).before.a, Zero)
    /\ FNe(unwrap(unwrap(filter).last).x, Zero)

\* the arguments and the result of the last Resonator::set
ResonatorSetCalled ==
    /\ filter # None
    /\ unwrap(filter).kind = "Resonator"
    /\ result.v # "" /\ result.v # "new"

\* C11: Resonator.set(f, bw, dcGain) returns Err("Invalid resonator
\* parameters.") exactly when f < 0, f >= sampleRate/2, bw <= 0,
\* dcGain <= 0 or one of the three is infinite or NaN, and Ok otherwise.
C11_SetRejectsInvalidAndNonFinite ==
    ResonatorSetCalled
        => LET f == result.v[1]
               bw == result.v[2]
               dc_gain == result.v[3]
               invalid == \/ FLt(f, Zero)
                          \/ FGe(f, Q(unwrap(filter).flt.sample_rate, 2))
                          \/ FLe(bw, Zero)
                          \/ FLe(dc_gain, Zero)
                          \/ ~is_finite(f) \/ ~is_finite(bw)
                          \/ ~is_finite(dc_gain)
           IN  /\ invalid <=> result = Err("Invalid resonator parameters.",
                                            result.v)
               /\ ~invalid <=> IsOk(result)

\* ------------------------------------------------------------------------
\* SpecPoly: the polynomial functions of poly_real.rs called on their own
\* ------------------------------------------------------------------------

\* longest coefficient array of an argument
MaxPolyLen == 2

\* coefficients of the arguments; 1/4 is above PolyEps and its square below
PolyCoefficients == {Zero, One, F(-1), Q(1, 4)}

\* the coefficient arrays, the empty one included
Polys == UNION {[1 .. n -> PolyCoefficients] : n \in 0 .. MaxPolyLen}

\* a tolerance of 1/10, in the encoding of EPS
PolyEps == <<1, 10, 1>>

PolyTolerances == {None, Some(PolyEps)}

InitPoly ==
    /\ \E a1 \in Polys, a2 \in Polys, eps \in PolyTolerances :
          pure = Some([a1 |-> a1, a2 |-> a2, eps |-> eps, op |-> "",
                       out |-> None])
    /\ generator = None
    /\ pc = "idle"
    /\ call = NoCall
    /\ out_buf = [len |-> 0, runs |-> <<>>]
    /\ result = Ok("new")
    /\ ncalls = 0
    /\ draws = <<>>
    /\ raw_log = EmptyLog
    /\ sound = NoSound
    /\ filter = None
    /\ tf = None
    /\ glottal = None

\* the call `op` has returned r
pure_returns(op, r) ==
    /\ pure' = Some([unwrap(pure) EXCEPT !.op = op, !.out = Some(r)])
    /\ UNCHANGED <<generator, pc, call, out_buf, result, ncalls, draws, raw_log,
                   sound, filter, tf, glottal>>

\* no function has been called on the arguments yet
PolyFresh == pure # None /\ unwrap(pure).op = ""

PolyTrim ==
    /\ PolyFresh
    /\ \E r \in {trim(unwrap(pure).a1, unwrap(pure).eps)} : pure_returns("trim", r)

PolyAdd ==
    /\ PolyFresh
    /\ \E r \in {add(unwrap(pure).a1, unwrap(pure).a2, unwrap(pure).eps)} :
          pure_returns("add", r)

PolyMultiply ==
    /\ PolyFresh
    /\ \E r \in {multiply(unwrap(pure).a1, unwrap(pure).a2, unwrap(pure).eps)} :
          pure_returns("multiply", r)

PolyDivide ==
    /\ PolyFresh
    /\ \E r \in {divide(unwrap(pure).a1, unwrap(pure).a2, unwrap(pure).eps)} :
          pure_returns("divide", r)

\* divide(&multiply(a1, a2, eps)?, a2, eps)
PolyDivideProduct ==
    /\ pure # None
    /\ unwrap(pure).op = "multiply"
    /\ IsOk(unwrap(unwrap(pure).out))
    /\ \E r \in {divide(unwrap(unwrap(pure).out).v, unwrap(pure).a2,
                        unwrap(pure).eps)} :
          pure_returns("divide_product", r)

PolyMakeMonic ==
    /\ PolyFresh
    /\ \E r \in {make_monic(unwrap(pure).a1)} : pure_returns("make_monic", r)

PolyGcd ==
    /\ PolyFresh
    /\ \E r \in {gcd(unwrap(pure).a1, unwrap(pure).a2, unwrap(pure).eps)} :
          pure_returns("gcd", r)

NextPoly ==
    \/ PolyTrim
    \/ PolyAdd
    \/ PolyMultiply
    \/ PolyDivide
    \/ PolyDivideProduct
    \/ PolyMakeMonic
    \/ PolyGcd

SpecPoly == InitPoly /\ [][NextPoly]_vars

\* ------------------------------------------------------------------------
\* Properties of the polynomial functions
\* ------------------------------------------------------------------------

\* a coefficient array that is not the zero polynomial
NonZeroPoly(a) == Len(a) > 0 /\ \E k \in 1 .. Len(a) : a[k] # Zero

\* two coefficient arrays equal within eps, coefficient by coefficient
EqualWithin(a, b, eps) ==
    /\ Len(a) > 0 /\ Len(b) > 0
    /\ \A i \in 0 .. max(Len(a) - 1, Len(b) - 1) :
          ~abs_gt(FSub(coefficient(a, i, Len(a) - 1),
                       coefficient(b, i, Len(b) - 1)), eps)

\* C12: for non-zero polynomials p and q, divide(multiply(p, q), q)
\* succeeds with a quotient equal to trim(p) within eps and remainder [0].
C12_DivideUndoesMultiply ==
    (pure # None /\ NonZeroPoly(unwrap(pure).a1) /\ NonZeroPoly(unwrap(pure).a2))
        => LET s == unwrap(pure)
           IN  /\ s.op = "multiply" => IsOk(unwrap(s.out))
               /\ s.op = "divide_product"
                    => /\ IsOk(unwrap(s.out))
                       /\ EqualWithin(unwrap(s.out).v[1], trim(s.a1, s.eps).v,
                                      s.eps)
                       /\ unwrap(s.out).v[2] = <<Zero>>

\* ------------------------------------------------------------------------
\* SpecFractions: add_fractions and multiply_fractions called on their own
\* ------------------------------------------------------------------------

FractionNumerators == {<<>>, <<One>>, <<F(3)>>, <<Zero, One>>}

\* x + 2, x + 1, (x + 1)(x + 2), and x + 2 with a top coefficient below
\* PolyEps
FractionDenominators ==
    {<<>>, <<One>>, <<F(2), One>>, <<One, One>>, <<F(2), F(3), One>>,
     <<F(2), One, Q(1, 20)>>}

Fractions == FractionNumerators \X FractionDenominators

InitFractions ==
    /\ \E f1 \in Fractions, f2 \in Fractions, eps \in PolyTolerances :
          pure = Some([f1 |-> f1, f2 |-> f2, eps |-> eps, op |-> "",
                       out |-> None])
    /\ generator = None
    /\ pc = "idle"
    /\ call = NoCall
    /\ out_buf = [len |-> 0, runs |-> <<>>]
    /\ result = Ok("new")
    /\ ncalls = 0
    /\ draws = <<>>
    /\ raw_log = EmptyLog
    /\ sound = NoSound
    /\ filter = None
    /\ tf = None
    /\ glottal = None

AddFractions ==
    /\ PolyFresh
    /\ \E r \in {add_fractions(unwrap(pure).f1, unwrap(pure).f2, unwrap(pure).eps)} :
          pure_returns("add_fractions", r)

MultiplyFractions ==
    /\ PolyFresh
    /\ \E r \in {multiply_fractions(unwrap(pure).f1, unwrap(pure).f2,
                                    unwrap(pure).eps)} :
          pure_returns("multiply_fractions", r)

NextFractions ==
    \/ AddFractions
    \/ MultiplyFractions

SpecFractions == InitFractions /\ [][NextFractions]_vars

\* add_fractions has returned for two fractions without an empty array
AddedFractions ==
    /\ pure # None
    /\ unwrap(pure).op = "add_fractions"
    /\ \A k \in 1 .. 2 : /\ Len(unwrap(pure).f1[k]) > 0
                         /\ Len(unwrap(pure).f2[k]) > 0

\* C13: add_fractions returns (n1 + n2 trimmed, d1) for denominators
\* equal within eps, so that [[1],[2,1]] + [[3],[2,1]] = [[4],[2,1]], and
\* (n1*d2 + n2*d1, d1*d2) for unequal denominators whose gcd is [1].
C13_AddFractionsBranches ==
    AddedFractions
        => LET s == unwrap(pure)
               n1 == s.f1[1]
               d1 == s.f1[2]
               n2 == s.f2[1]
               d2 == s.f2[2]
               out == unwrap(s.out)
           IN  /\ EqualWithin(d1, d2, s.eps)
                    => out = Ok(<<add(n1, n2, s.eps).v, d1>>)
               /\ (~EqualWithin(d1, d2, s.eps)
                   /\ gcd(d1, d2, s.eps) = Ok(<<One>>))
                    => out = Ok(<<add(multiply(n1, d2, s.eps).v,
                                      multiply(n2, d1, s.eps).v, s.eps).v,
                                  multiply(d1, d2, s.eps).v>>)
               /\ (s.f1 = <<<<One>>, <<F(2), One>>>>
                   /\ s.f2 = <<<<F(3)>>, <<F(2), One>>>>)
                    => out = Ok(<<<<F(4)>>, <<F(2), One>>>>)

\* C13 witness: two fractions with unequal coprime denominators were added
\* to a fraction with a numerator and a denominator of degree 2
C13_CoprimeSumWitness ==
    /\ AddedFractions
    /\ ~EqualWithin(unwrap(pure).f1[2], unwrap(pure).f2[2], unwrap(pure).eps)
    /\ IsOk(unwrap(unwrap(pure).out))
    /\ Len(unwrap(unwrap(pure).out).v[2]) = 3
    /\ Len(unwrap(unwrap(pure).out).v[1]) = 2

\* ------------------------------------------------------------------------
\* SpecDb: db_to_lin called on its own, in klatt.rs and in the binary's
\* copy src/lib.rs
\* ------------------------------------------------------------------------

\* db_to_lin of src/lib.rs: `db <= -99.0 || db == std::f64::NAN`, then
\* 10f64.powf(db / 20.0)
lib_db_to_lin(db) ==
    IF FLe(db, F(-99)) \/ FEq(db, NaN) THEN Zero
    ELSE IF is_nan(db) THEN NaN
    ELSE IF db = PosInf THEN PosInf
    ELSE Pow10(db[1] \div 20)

\* the levels are multiples of 20 dB up to 20 * MaxDbSteps in size
MaxDbSteps == 8

\* levels at and below -99 dB
LowDbs == {F(-99), Q(-991, 10), Q(-199, 2), F(-101), F(-150), Q(-401, 2),
           F(-1000)}

Dbs ==
    {F(20 * k) : k \in -MaxDbSteps .. MaxDbSteps}
        \cup LowDbs \cup {NaN, PosInf, NegInf}

InitDb ==
    /\ \E db \in Dbs : pure = Some([db |-> db, out |-> None, lib_out |-> None])
    /\ generator = None
    /\ pc = "idle"
    /\ call = NoCall
    /\ out_buf = [len |-> 0, runs |-> <<>>]
    /\ result = Ok("new")
    /\ ncalls = 0
    /\ draws = <<>>
    /\ raw_log = EmptyLog
    /\ sound = NoSound
    /\ filter = None
    /\ tf = None
    /\ glottal = None

\* db_to_lin(db) of klatt.rs
DbToLin ==
    /\ pure # None
    /\ unwrap(pure).out = None
    /\ pure' = Some([unwrap(pure) EXCEPT !.out = Some(db_to_lin(unwrap(pure).db))])
    /\ UNCHANGED <<generator, pc, call, out_buf, result, ncalls, draws, raw_log,
                   sound, filter, tf, glottal>>

\* db_to_lin(db) of src/lib.rs
LibDbToLin ==
    /\ pure # None
    /\ unwrap(pure).lib_out = None
    /\ pure' = Some([unwrap(pure) EXCEPT
                        !.lib_out = Some(lib_db_to_lin(unwrap(pure).db))])
    /\ UNCHANGED <<generator, pc, call, out_buf, result, ncalls, draws, raw_log,
                   sound, filter, tf, glottal>>

NextDb ==
    \/ DbToLin
    \/ LibDbToLin

SpecDb == InitDb /\ [][NextDb]_vars

\* what C14 states of the value lin returned for db
DbToLinAsStated(db, lin) ==
    /\ (FLe(db, F(-99)) \/ is_nan(db)) => lin = Zero
    /\ (is_finite(db) /\ FGt(db, F(-99))) => lin = Pow10(db[1] \div 20)
    /\ db = Zero => lin = One
    /\ db = F(-20) => lin = Q(1, 10)

\* C14: db_to_lin(db) is 0 for db <= -99 and for NaN and 10^(db/20) for
\* every other db, so db_to_lin(0) = 1 and db_to_lin(-20) = 0.1; in klatt.rs
\* and in src/lib.rs.
C14_DbToLinAsStated ==
    pure # None
        => /\ unwrap(pure).out # None
                => DbToLinAsStated(unwrap(pure).db, unwrap(unwrap(pure).out))
           /\ unwrap(pure).lib_out # None
                => DbToLinAsStated(unwrap(pure).db, unwrap(unwrap(pure).lib_out))

\* the part of C14 that is about klatt.rs
DbToLinOfKlattAsStated ==
    (pure # None /\ unwrap(pure).out # None)
        => DbToLinAsStated(unwrap(pure).db, unwrap(unwrap(pure).out))

\* ------------------------------------------------------------------------
\* SpecAgc: the automatic gain control at the end of generate_frame, on a
\* buffer the sample loop has filled
\* ------------------------------------------------------------------------

\* longest buffer
MaxAgcLen == 2

\* the samples the loop has written
AgcSamples == {Zero, One, F(-1), F(7)}

AgcBuffers == UNION {[1 .. n -> AgcSamples] : n \in 0 .. MaxAgcLen}

\* gain_db of the frame: the NaN sentinel, a level, an infinite level
AgcGainDbs == {NaN, Zero, PosInf}

AgcRmsLevels == {Q(18, 100), One}

\* the buffer as cells written by call 1
AgcCells(samples) ==
    [i \in 1 .. Len(samples) |->
        [at |-> i - 1, n |-> 1, v |-> samples[i], f_parms |-> "", call |-> 1,
         agc |-> FALSE]]

InitAgc ==
    /\ \E samples \in AgcBuffers, gain_db \in AgcGainDbs,
          agc_rms_level \in AgcRmsLevels :
          pure = Some([samples |-> samples, gain_db |-> gain_db,
                       agc_rms_level |-> agc_rms_level, out |-> None])
    /\ generator = None
    /\ pc = "idle"
    /\ call = NoCall
    /\ out_buf = [len |-> 0, runs |-> <<>>]
    /\ result = Ok("new")
    /\ ncalls = 0
    /\ draws = <<>>
    /\ raw_log = EmptyLog
    /\ sound = NoSound
    /\ filter = None
    /\ tf = None
    /\ glottal = None

\* generate_frame leaves its sample loop and returns
AgcFrameReturn ==
    /\ pure # None
    /\ unwrap(pure).out = None
    /\ pure' = Some([unwrap(pure) EXCEPT !.out =
                        Some(automatic_gain_control(
                                 AgcCells(unwrap(pure).samples), 1,
                                 [gain_db |-> unwrap(pure).gain_db,
                                  agc_rms_level |-> unwrap(pure).agc_rms_level]))])
    /\ UNCHANGED <<generator, pc, call, out_buf, result, ncalls, draws, raw_log,
                   sound, filter, tf, glottal>>

NextAgc == AgcFrameReturn

SpecAgc == InitAgc /\ [][NextAgc]_vars

\* the mean of the squares of the samples in cells
MeanSquare(cells) == FDiv(sum_of_squares(cells, 1, 1), F(Len(cells)))

\* the model's sqrt, which rounds to 2 places, is exact on x
SqrtIsExact(x) == FMul(sqrt(x), sqrt(x)) = x

\* C15: generate_frame rescales the buffer exactly when the frame's gain_db
\* is NaN, the buffer is not empty and its RMS is not zero; it then
\* multiplies every sample by agc_rms_level / RMS(buffer), after which the
\* RMS of the buffer is agc_rms_level; otherwise the buffer is unchanged.
C15_AgcRescalesWholeBuffer ==
    (pure # None /\ unwrap(pure).out # None)
        => LET s == unwrap(pure)
               before == AgcCells(s.samples)
               after == unwrap(s.out)
               rms == sqrt(MeanSquare(before))
               applied == /\ is_nan(s.gain_db)
                          /\ Len(s.samples) > 0
                          /\ \E i \in 1 .. Len(s.samples) : s.samples[i] # Zero
           IN  /\ Len(after) = Len(before)
               /\ applied
                    => /\ \A i \in 1 .. Len(after) :
                             after[i].v = FMul(s.samples[i],
                                               FDiv(s.agc_rms_level, rms))
                       /\ SqrtIsExact(MeanSquare(before))
                            => MeanSquare(after)
                                 = FMul(s.agc_rms_level, s.agc_rms_level)
               /\ ~applied
                    => \A i \in 1 .. Len(after) : after[i].v = s.samples[i]

\* C15 witness: a buffer of two different non-zero samples with an exact RMS
\* was rescaled
C15_RescaledWitness ==
    /\ pure # None
    /\ unwrap(pure).out # None
    /\ is_nan(unwrap(pure).gain_db)
    /\ unwrap(pure).samples = <<One, F(7)>>
    /\ unwrap(unwrap(pure).out)[1].v # One
    /\ SqrtIsExact(MeanSquare(AgcCells(unwrap(pure).samples)))

\* ------------------------------------------------------------------------
\* SpecPeriod: the period state start_new_period computes
\* ------------------------------------------------------------------------

PeriodSampleRates == {12000, 44100}

\* f0 of the frame: usual values, none, negative, NaN, above the sample rate
PeriodF0s == {F(247), F(100), F(4000), Zero, F(-1), NaN, F(100000)}

PeriodFlutterLevels == {Zero, Q(1, 4)}

PeriodOpenPhaseRatios == {Zero, Q(1, 2), Q(7, 10), One}

\* abs_position / sample_rate + flutter_time_offset goes up to this
MaxFlutterTime == 2

InitPeriod ==
    /\ \E sr \in PeriodSampleRates, f0 \in PeriodF0s,
          flutter_level \in PeriodFlutterLevels,
          open_phase_ratio \in PeriodOpenPhaseRatios,
          flutter_time \in 0 .. MaxFlutterTime :
          pure = Some([sample_rate |-> sr, f0 |-> f0,
                       flutter_level |-> flutter_level,
                       open_phase_ratio |-> open_phase_ratio,
                       flutter_time |-> flutter_time, p_state |-> None])
    /\ generator = None
    /\ pc = "idle"
    /\ call = NoCall
    /\ out_buf = [len |-> 0, runs |-> <<>>]
    /\ result = Ok("new")
    /\ ncalls = 0
    /\ draws = <<>>
    /\ raw_log = EmptyLog
    /\ sound = NoSound
    /\ filter = None
    /\ tf = None
    /\ glottal = None

\* start_new_period, from the modulation of f0 to position_in_period = 0
StartNewPeriod ==
    /\ pure # None
    /\ unwrap(pure).p_state = None
    /\ pure' = Some([unwrap(pure) EXCEPT !.p_state =
                        Some(new_period_state(
                                 unwrap(pure).sample_rate, unwrap(pure).f0,
                                 unwrap(pure).flutter_level,
                                 unwrap(pure).open_phase_ratio,
                                 unwrap(pure).flutter_time))])
    /\ UNCHANGED <<generator, pc, call, out_buf, result, ncalls, draws, raw_log,
                   sound, filter, tf, glottal>>

NextPeriod == StartNewPeriod

SpecPeriod == InitPeriod /\ [][NextPeriod]_vars

\* C16: start_new_period sets period_length = round(sample_rate /
\* f0_modulated) when f0_modulated > 0 and 1 otherwise, open_phase_length =
\* round(period_length * open_phase_ratio) when period_length > 1 and 0
\* otherwise, and position_in_period = 0; sample rate 44100, f0 247 without
\* flutter and ratio 0.7 give 179 and 125.
C16_PeriodLengths ==
    (pure # None /\ unwrap(pure).p_state # None)
        => LET s == unwrap(pure)
               p == unwrap(s.p_state)
           IN  /\ FLe(s.flutter_level, Zero) => p.f0 = s.f0
               /\ p.period_length
                    = IF FGt(p.f0, Zero)
                      THEN round(FDiv(F(s.sample_rate), p.f0))
                      ELSE 1
               /\ p.open_phase_length
                    = IF p.period_length > 1
                      THEN round(FMul(F(p.period_length), s.open_phase_ratio))
                      ELSE 0
               /\ p.position_in_period = 0
               /\ (s.sample_rate = 44100 /\ s.f0 = F(247)
                   /\ s.flutter_level = Zero /\ s.open_phase_ratio = Q(7, 10))
                    => p.period_length = 179 /\ p.open_phase_length = 125

\* C16 witness: a period was started at sample rate 44100 with f0 247
\* modulated by flutter, and its length is not 179
C16_FlutteredPeriodWitness ==
    /\ pure # None
    /\ unwrap(pure).p_state # None
    /\ unwrap(pure).sample_rate = 44100
    /\ unwrap(pure).f0 = F(247)
    /\ unwrap(pure).open_phase_ratio = Q(7, 10)
    /\ unwrap(unwrap(pure).p_state).f0 # F(247)
    /\ unwrap(unwrap(pure).p_state).period_length # 179
    /\ unwrap(unwrap(pure).p_state).open_phase_length > 0

\* ------------------------------------------------------------------------
\* SpecParallel: the summation of the parallel branch for one sample, from
\* `let mut v = 0.0` on, in klatt.rs and in the binary's copy src/lib.rs
\* ------------------------------------------------------------------------

\* compute_parallel_branch of src/lib.rs: `for i in 0..MAX_ORAL_FORMANTS`
\* after the steps of the nasal formant and of F1
lib_parallel_sum(c) ==
    parallel_bypass(step_oral_formants_par(parallel_nasal_and_f1(c), 0))

\* compute_parallel_branch of klatt.rs: `for i in 1..MAX_ORAL_FORMANTS`
parallel_sum(c) ==
    parallel_bypass(step_oral_formants_par(parallel_nasal_and_f1(c), 1))

\* a parallel formant filter at sample rate 12000: muted, or set at a
\* quarter of the sample rate (b = 0, c = -1/4, a = 5/4) with an empty
\* delay line
ParallelFilter(on) ==
    IF on
    THEN Resonator_set(Resonator_new(12000), F(3000), F(2648), One).v
    ELSE Resonator_set_mute(Resonator_new(12000))

\* the values of source and of source2
ParallelSources == {One, F(-3)}
ParallelSources2 == {F(16)}
ParallelBypassLins == {Zero, Q(1, 2)}

\* which of the nasal formant (index 0) and F1..F6 (1..6) are set
ParallelFilterSets == [0 .. MAX_ORAL_FORMANTS -> BOOLEAN]

ParallelInput(on, source, source2, bypass) ==
    [g |-> [nasal_formant_par |-> ParallelFilter(on[0]),
            oral_formant_par |->
                [k \in 1 .. MAX_ORAL_FORMANTS |-> ParallelFilter(on[k])],
            f_state |-> [parallel_bypass_lin |-> bypass]],
     source |-> source, source2 |-> source2, v |-> Zero, draws |-> <<>>]

InitParallel ==
    /\ \E on \in ParallelFilterSets, source \in ParallelSources,
          source2 \in ParallelSources2, bypass \in ParallelBypassLins :
          pure = Some([c |-> ParallelInput(on, source, source2, bypass),
                       out |-> None, lib_out |-> None])
    /\ generator = None
    /\ pc = "idle"
    /\ call = NoCall
    /\ out_buf = [len |-> 0, runs |-> <<>>]
    /\ result = Ok("new")
    /\ ncalls = 0
    /\ draws = <<>>
    /\ raw_log = EmptyLog
    /\ sound = NoSound
    /\ filter = None
    /\ tf = None
    /\ glottal = None

\* the summation of klatt.rs
ParallelSum ==
    /\ pure # None
    /\ unwrap(pure).out = None
    /\ pure' = Some([unwrap(pure) EXCEPT !.out = Some(parallel_sum(unwrap(pure).c))])
    /\ UNCHANGED <<generator, pc, call, out_buf, result, ncalls, draws, raw_log,
                   sound, filter, tf, glottal>>

\* the summation of src/lib.rs
LibParallelSum ==
    /\ pure # None
    /\ unwrap(pure).lib_out = None
    /\ pure' = Some([unwrap(pure) EXCEPT
                        !.lib_out = Some(lib_parallel_sum(unwrap(pure).c))])
    /\ UNCHANGED <<generator, pc, call, out_buf, result, ncalls, draws, raw_log,
                   sound, filter, tf, glottal>>

NextParallel ==
    \/ ParallelSum
    \/ LibParallelSum

SpecParallel == InitParallel /\ [][NextParallel]_vars

\* the input the routing gives oral formant k = 1..6 (F1 the source, F2..F6
\* source2)
FormantInput(c, k) == IF k = 1 THEN c.source ELSE c.source2

\* the sign of oral formant k = 2..6 when F2 has the sign s2 and the signs
\* alternate
SignOf(k, s2) == IF k % 2 = 0 THEN s2 ELSE FNeg(s2)

\* the sum of SignOf(k, s2) * F_k(source2) over the oral formants
\* k = from..6 of c
RECURSIVE SignedFormantSum(_, _, _)
SignedFormantSum(c, from, s2) ==
    IF from > MAX_ORAL_FORMANTS THEN Zero
    ELSE FAdd(FMul(SignOf(from, s2),
                   Resonator_step(c.g.oral_formant_par[from], c.source2).y),
              SignedFormantSum(c, from + 1, s2))

\* the output for the input c with the signs s2, -s2, s2, -s2, s2 for
\* F2..F6, and every filter stepped once on its input
RoutedAsStated(c, out, s2) ==
    /\ out.v = FAdd(FAdd(FAdd(Resonator_step(c.g.nasal_formant_par, c.source).y,
                              Resonator_step(c.g.oral_formant_par[1], c.source).y),
                         SignedFormantSum(c, 2, s2)),
                    FMul(c.g.f_state.parallel_bypass_lin, c.source2))
    /\ out.g.nasal_formant_par
         = Resonator_step(c.g.nasal_formant_par, c.source).flt
    /\ \A k \in 1 .. MAX_ORAL_FORMANTS :
          out.g.oral_formant_par[k]
            = Resonator_step(c.g.oral_formant_par[k], FormantInput(c, k)).flt

\* C17: the parallel-branch output is nasal(source) + F1(source) + the sum
\* over F2..F6 of s_k * F_k(source2) + parallel_bypass_lin * source2 with
\* the signs +, -, +, -, +, and every parallel filter is stepped exactly
\* once per sample; in klatt.rs and in src/lib.rs.
C17_ParallelSumAsStated ==
    pure # None
        => /\ unwrap(pure).out # None
                => RoutedAsStated(unwrap(pure).c, unwrap(unwrap(pure).out),
                                  One)
           /\ unwrap(pure).lib_out # None
                => RoutedAsStated(unwrap(pure).c, unwrap(unwrap(pure).lib_out),
                                  One)

\* klatt.rs computes the sum with the signs -, +, -, +, - and steps every
\* filter once
ParallelSumOfKlatt ==
    (pure # None /\ unwrap(pure).out # None)
        => RoutedAsStated(unwrap(pure).c, unwrap(unwrap(pure).out), F(-1))

\* src/lib.rs steps every filter but F1 once and uses the signs -, +, -, +, -
ParallelSumOfLibButF1 ==
    (pure # None /\ unwrap(pure).lib_out # None
     /\ unwrap(pure).c.g.oral_formant_par[1].muted)
        => RoutedAsStated(unwrap(pure).c, unwrap(unwrap(pure).lib_out),
                          F(-1))

\* ------------------------------------------------------------------------
\* SpecRouting: a caller computes the transfer functions of the two
\* branches and then steps the parallel and the cascade branch on a unit
\* impulse without noise
\* ------------------------------------------------------------------------

\* samples of the impulse response computed
MaxImpulseLen == 3

RoutingSampleRates == {12000}

\* nasal formant, oral formants, level of the bypass path, nasal
\* anti-formant given or not
RoutingInputs ==
    [nasal : TFNasalKinds,
     oral : UNION {[1 .. n -> TFFormantKinds] : n \in 0 .. MaxOral},
     parallel_bypass_db : {F(-99), F(-20)},
     antiformant : BOOLEAN]

\* the frame of an input: both branches voiced at 0 dB
RoutingFrame(sr, inp) ==
    [TFFrame(sr, [cascade_enabled |-> TRUE, parallel_enabled |-> TRUE,
                  nasal |-> inp.nasal, oral |-> inp.oral])
        EXCEPT !.parallel_bypass_db = inp.parallel_bypass_db,
               !.nasal_antiformant_freq =
                   IF inp.antiformant THEN F(sr \div 6) ELSE @,
               !.nasal_antiformant_bw =
                   IF inp.antiformant THEN BaseFrame(sr).oral_formant_bw[2] ELSE @]

\* the parallel filters and levels of a generator that has started to use
\* f_parms, with empty delay lines
routing_parallel(m_parms, f_parms) ==
    [g |-> [nasal_formant_par |->
                set_nasal_formant_par(Resonator_new(m_parms.sample_rate),
                                      f_parms).v,
            oral_formant_par |->
                [k \in 1 .. MAX_ORAL_FORMANTS |->
                    set_oral_formant_par(Resonator_new(m_parms.sample_rate),
                                         m_parms, f_parms, k - 1).v],
            differencing_filter_par |-> DifferencingFilter_new,
            f_state |->
                [parallel_voicing_lin |-> db_to_lin(f_parms.parallel_voicing_db),
                 parallel_bypass_lin |-> db_to_lin(f_parms.parallel_bypass_db)]],
     source |-> Zero, source2 |-> Zero, v |-> Zero, draws |-> <<>>]

\* the cascade filters and level of a generator that has started to use
\* f_parms, with empty delay lines
routing_cascade(m_parms, f_parms) ==
    [g |-> [nasal_antiformant_casc |->
                set_nasal_antiformant_casc(
                    AntiResonator_new(m_parms.sample_rate), f_parms).v,
            nasal_formant_casc |->
                set_nasal_formant_casc(Resonator_new(m_parms.sample_rate),
                                       f_parms).v,
            oral_formant_casc |->
                [k \in 1 .. MAX_ORAL_FORMANTS |->
                    set_oral_formant_casc(Resonator_new(m_parms.sample_rate),
                                          f_parms, k - 1).v],
            f_state |->
                [cascade_voicing_lin |-> db_to_lin(f_parms.cascade_voicing_db)]],
     v |-> Zero, draws |-> <<>>]

\* compute_parallel_branch from `let source_difference = ...` on, for a
\* source without aspiration and a source2 without frication noise; d is
\* what the differencing filter's step returned
parallel_of_difference(c, source, d) ==
    parallel_sum([c EXCEPT !.g.differencing_filter_par = d.flt,
                           !.source = source, !.source2 = d.y, !.v = Zero])

\* compute_parallel_branch for a source without noise
parallel_of_source(c, source) ==
    parallel_of_difference(
        c, source, DifferencingFilter_step(c.g.differencing_filter_par, source))

\* compute_parallel_branch(voice) without noise
parallel_without_noise(c, voice) ==
    parallel_of_source(c, FMul(voice, c.g.f_state.parallel_voicing_lin))

\* compute_cascade_branch(voice) without aspiration
cascade_without_noise(c, voice) ==
    step_oral_formants_casc(
        cascade_nasal([c EXCEPT !.v = FMul(voice, c.g.f_state.cascade_voicing_lin)]),
        0)

\* sample n (from 0) of a unit impulse
Impulse(n) == IF n = 0 THEN One ELSE Zero

InitRouting ==
    /\ \E sr \in RoutingSampleRates, inp \in RoutingInputs :
          pure = Some([m_parms |-> [sample_rate |-> sr,
                                    glottal_source_type |-> "Impulsive"],
                       f_parms |-> RoutingFrame(sr, inp),
                       parallel_trans |-> None,
                       cascade_trans |-> None,
                       parallel |-> routing_parallel(
                                        [sample_rate |-> sr], RoutingFrame(sr, inp)),
                       parallel_out |-> <<>>,
                       cascade |-> routing_cascade(
                                       [sample_rate |-> sr], RoutingFrame(sr, inp)),
                       cascade_out |-> <<>>])
    /\ generator = None
    /\ pc = "idle"
    /\ call = NoCall
    /\ out_buf = [len |-> 0, runs |-> <<>>]
    /\ result = Ok("new")
    /\ ncalls = 0
    /\ draws = <<>>
    /\ raw_log = EmptyLog
    /\ sound = NoSound
    /\ filter = None
    /\ tf = None
    /\ glottal = None

routing_unchanged ==
    UNCHANGED <<generator, pc, call, out_buf, result, ncalls, draws, raw_log,
                sound, filter, tf, glottal>>

ParallelTransferFunction ==
    /\ pure # None
    /\ unwrap(pure).parallel_trans = None
    /\ pure' = Some([unwrap(pure) EXCEPT !.parallel_trans =
                        Some(get_parallel_branch_transfer_function_coefficients(
                                 unwrap(pure).m_parms, unwrap(pure).f_parms))])
    /\ routing_unchanged

CascadeTransferFunction ==
    /\ pure # None
    /\ unwrap(pure).parallel_trans # None
    /\ unwrap(pure).cascade_trans = None
    /\ pure' = Some([unwrap(pure) EXCEPT !.cascade_trans =
                        Some(get_cascade_branch_transfer_function_coefficients(
                                 unwrap(pure).m_parms, unwrap(pure).f_parms))])
    /\ routing_unchanged

\* the parallel branch computes the next sample of the impulse response
ParallelSample ==
    /\ pure # None
    /\ unwrap(pure).cascade_trans # None
    /\ Len(unwrap(pure).parallel_out) < MaxImpulseLen
    /\ \E c \in {parallel_without_noise(
                     unwrap(pure).parallel,
                     Impulse(Len(unwrap(pure).parallel_out)))} :
          pure' = Some([unwrap(pure) EXCEPT !.parallel = c,
                                            !.parallel_out = Append(@, c.v)])
    /\ routing_unchanged

\* the cascade branch computes the next sample of the impulse response
CascadeSample ==
    /\ pure # None
    /\ Len(unwrap(pure).parallel_out) = MaxImpulseLen
    /\ Len(unwrap(pure).cascade_out) < MaxImpulseLen
    /\ \E c \in {cascade_without_noise(
                     unwrap(pure).cascade,
                     Impulse(Len(unwrap(pure).cascade_out)))} :
          pure' = Some([unwrap(pure) EXCEPT !.cascade = c,
                                            !.cascade_out = Append(@, c.v)])
    /\ routing_unchanged

NextRouting ==
    \/ ParallelTransferFunction
    \/ CascadeTransferFunction
    \/ ParallelSample
    \/ CascadeSample

SpecRouting == InitRouting /\ [][NextRouting]_vars

\* sum over k = 1 .. n of d[k] * h[n - k], for the denominator d (d[0] first)
\* and the response h computed so far
RECURSIVE Feedback(_, _, _, _)
Feedback(d, h, n, k) ==
    IF k > n THEN Zero
    ELSE FAdd(FMul(coefficient(d, k, Len(d) - 1), h[n - k + 1]),
              Feedback(d, h, n, k + 1))

\* the first len coefficients of the power series in z^-1 of the fraction
\* t = [numerator, denominator]: the impulse response of the filter with
\* transfer function t
RECURSIVE ResponseOf(_, _, _)
ResponseOf(t, len, h) ==
    IF Len(h) >= len THEN h
    ELSE ResponseOf(
             t, len,
             Append(h, FDiv(FSub(coefficient(t[1], Len(h), Len(t[1]) - 1),
                                 Feedback(t[2], h, Len(h), 1)),
                            t[2][1])))

\* a transfer function was computed, as a fraction with a numerator and a
\* denominator
HasFraction(trans) ==
    /\ trans # None
    /\ IsOk(unwrap(trans))
    /\ Len(unwrap(trans).v[1]) > 0
    /\ Len(unwrap(trans).v[2]) > 0

\* C18: the transfer function of the parallel branch mirrors the per-sample
\* routing of compute_parallel_branch (inputs and signs of the oral
\* formants, nasal formant from source, bypass from the differenced source)
\* and that of the cascade branch multiplies the filters the sample path
\* steps in series: the impulse response of each transfer function is the
\* sample path's response to a unit impulse.
C18_TransferFunctionsMirrorSamplePath ==
    pure # None
        => /\ HasFraction(unwrap(pure).parallel_trans)
                => unwrap(pure).parallel_out
                     = ResponseOf(unwrap(unwrap(pure).parallel_trans).v,
                                  Len(unwrap(pure).parallel_out), <<>>)
           /\ HasFraction(unwrap(pure).cascade_trans)
                => unwrap(pure).cascade_out
                     = ResponseOf(unwrap(unwrap(pure).cascade_trans).v,
                                  Len(unwrap(pure).cascade_out), <<>>)

\* C18 witness: three samples of both branches and both transfer functions
\* for a frame with the nasal formant, F1 and F2 set and an open bypass path
C18_TwoFormantsWitness ==
    /\ pure # None
    /\ HasFraction(unwrap(pure).parallel_trans)
    /\ HasFraction(unwrap(pure).cascade_trans)
    /\ Len(unwrap(pure).parallel_out) = 3
    /\ Len(unwrap(pure).cascade_out) = 3
    /\ ~unwrap(pure).parallel.g.nasal_formant_par.muted
    /\ ~unwrap(pure).parallel.g.oral_formant_par[1].muted
    /\ ~unwrap(pure).parallel.g.oral_formant_par[2].muted
    /\ unwrap(pure).parallel.g.f_state.parallel_bypass_lin # Zero
    /\ unwrap(pure).parallel_out[2] # Zero

\* gcd has returned for two polynomials that are not zero
GcdOfNonZero ==
    /\ pure # None
    /\ unwrap(pure).op = "gcd"
    /\ NonZeroPoly(unwrap(pure).a1)
    /\ NonZeroPoly(unwrap(pure).a2)

Divides(d, a, eps) ==
    /\ IsOk(divide(a, d, eps))
    /\ divide(a, d, eps).v[2] = <<Zero>>

PolyFailureCase ==
    /\ pure # None
    /\ \/ /\ unwrap(pure).op \in {"trim", "make_monic"}
          /\ Len(unwrap(pure).a1) = 0
       \/ /\ unwrap(pure).op \in {"add", "multiply", "divide", "gcd"}
          /\ (Len(unwrap(pure).a1) = 0 \/ Len(unwrap(pure).a2) = 0)
       \/ /\ unwrap(pure).op = "divide"
          /\ Len(unwrap(pure).a1) > 0
          /\ Len(unwrap(pure).a2) > 0
          /\ trim(unwrap(pure).a2, unwrap(pure).eps) = Ok(<<Zero>>)
       \/ /\ unwrap(pure).op = "make_monic"
          /\ Len(unwrap(pure).a1) > 0
          /\ FEq(unwrap(pure).a1[Len(unwrap(pure).a1)], Zero)

\* C20: every polynomial-algebra failure (an empty coefficient array, a
\* divisor that trims to [0], a leading coefficient 0 in make_monic) is
\* returned to the caller as an Err, never as a panic or an Ok.
C20_FailuresAreErrValues ==
    PolyFailureCase =>
        /\ ~IsOk(unwrap(unwrap(pure).out))
        /\ unwrap(unwrap(pure).out) # Panic

\* ------------------------------------------------------------------------
\* SpecTrim: trim called on a coefficient array, and again on its result.
\* A NaN coefficient reaches trim when a frame has a NaN nasal formant
\* frequency, which Resonator::set accepts.
\* ------------------------------------------------------------------------

MaxTrimLen == 3

\* 1/20 is below PolyEps
TrimCoefficients == {Zero, One, F(-1), Q(1, 20), NaN}

TrimArrays == UNION {[1 .. n -> TrimCoefficients] : n \in 0 .. MaxTrimLen}

InitTrim ==
    /\ \E a \in TrimArrays, eps \in PolyTolerances :
          pure = Some([a |-> a, eps |-> eps, op |-> "", out |-> None,
                       again |-> None])
    /\ generator = None
    /\ pc = "idle"
    /\ call = NoCall
    /\ out_buf = [len |-> 0, runs |-> <<>>]
    /\ result = Ok("new")
    /\ ncalls = 0
    /\ draws = <<>>
    /\ raw_log = EmptyLog
    /\ sound = NoSound
    /\ filter = None
    /\ tf = None
    /\ glottal = None

\* trim(&a, eps)
Trim ==
    /\ pure # None
    /\ unwrap(pure).op = ""
    /\ \E r \in {trim(unwrap(pure).a, unwrap(pure).eps)} :
          pure_returns("trim", r)

\* trim(&trim(&a, eps)?, eps)
TrimAgain ==
    /\ pure # None
    /\ unwrap(pure).op = "trim"
    /\ IsOk(unwrap(unwrap(pure).out))
    /\ \E r \in {trim(unwrap(unwrap(pure).out).v, unwrap(pure).eps)} :
          /\ pure' = Some([unwrap(pure) EXCEPT !.op = "trim_again",
                                               !.again = Some(r)])
          /\ UNCHANGED <<generator, pc, call, out_buf, result, ncalls, draws,
                         raw_log, sound, filter, tf, glottal>>

NextTrim ==
    \/ Trim
    \/ TrimAgain

SpecTrim == InitTrim /\ [][NextTrim]_vars

\* the indices of a whose coefficient has a magnitude above eps
AboveEps(a, eps) == {k \in 1 .. Len(a) : abs_gt(a[k], eps)}

\* what trim is stated to return for a non-empty a
TrimAsStated(a, eps) ==
    IF AboveEps(a, eps) = {} THEN <<Zero>>
    ELSE SubSeq(a, 1, CHOOSE k \in AboveEps(a, eps) :
                          \A j \in AboveEps(a, eps) : j <= k)

\* trim has returned, and what is stated of it holds
TrimReturnedAsStated ==
    LET s == unwrap(pure)
    IN  /\ Len(s.a) = 0 => ~IsOk(unwrap(s.out))
        /\ Len(s.a) > 0 => unwrap(s.out) = Ok(TrimAsStated(s.a, s.eps))
        /\ s.op = "trim_again" => unwrap(s.again) = unwrap(s.out)

\* C21: trim of a non-empty array returns the longest prefix whose last
\* coefficient has a magnitude above eps, [0] when there is none, keeps
\* the lower coefficients as they are and is idempotent; trim of an empty
\* array is an error.
C21_TrimAsStated ==
    (pure # None /\ unwrap(pure).op \in {"trim", "trim_again"})
        => TrimReturnedAsStated

\* the same for arrays without a NaN
TrimOfNumbersAsStated ==
    (/\ pure # None
     /\ unwrap(pure).op \in {"trim", "trim_again"}
     /\ \A k \in 1 .. Len(unwrap(pure).a) : ~is_nan(unwrap(pure).a[k]))
        => TrimReturnedAsStated

\* the delay line of the filter object
FilterDelay == Filter_delay(unwrap(filter).kind, unwrap(filter).flt)

\* an empty delay line
DelayIsClear == \A k \in 1 .. Len(FilterDelay) : FilterDelay[k] = Zero

\* the delay line of flt is the one of the filter object
KeepsDelay(flt) ==
    Filter_delay(unwrap(filter).kind, flt) = FilterDelay

\* the delay line of flt is empty
ClearsDelay(flt) ==
    \A k \in 1 .. Len(FilterDelay) :
        Filter_delay(unwrap(filter).kind, flt)[k] = Zero

\* C22: whatever the filter object holds, set (of the three filters),
\* adjust_impulse_gain and adjust_peak_gain leave the delay line as it
\* is, with any arguments and whether they return Ok or Err;
\* set_passthrough and set_mute clear it.
C22_OnlyResetsClearDelayLine ==
    filter # None =>
        /\ \A f \in FilterFreqs, bw \in FilterBws, g \in FilterGains :
               KeepsDelay(Filter_set(unwrap(filter).kind, unwrap(filter).flt,
                                     f, bw, g).v)
        /\ unwrap(filter).kind = "Resonator" =>
               \A gain \in FilterAdjustGains :
                   /\ KeepsDelay(Resonator_adjust_impulse_gain(
                                     unwrap(filter).flt, gain))
                   /\ KeepsDelay(Resonator_adjust_peak_gain(
                                     unwrap(filter).flt, gain).v)
        /\ ClearsDelay(Filter_set_passthrough(unwrap(filter).kind,
                                              unwrap(filter).flt))
        /\ ClearsDelay(Filter_set_mute(unwrap(filter).kind,
                                       unwrap(filter).flt))

\* C22 witness: set has returned Ok for a filter whose delay line holds a
\* sample
C22_SetKeepsDelayWitness ==
    /\ filter # None
    /\ result.v # "" /\ result.v # "new"
    /\ IsOk(result)
    /\ ~DelayIsClear

\* ------------------------------------------------------------------------
\* SpecGlottal: a glottal source object used on its own: start_period and
\* get_next in any order. `k` counts the get_next calls since the last
\* start_period, `started` is the argument of that start_period, `before`
\* the object as it was before the last get_next.
\* ------------------------------------------------------------------------

MaxGlottalOps == 6

GlottalKinds == {"Impulsive", "Natural", "Natural of lib.rs"}
GlottalSampleRates == {12000}
MaxOpenPhaseLength == 4

GlottalSource_new(kind, sample_rate) ==
    IF kind = "Impulsive" THEN ImpulsiveGlottalSource_new(sample_rate)
    ELSE NaturalGlottalSource_new

\* start_period(open_phase_length) as a Result holding the object
GlottalSource_start_period(kind, src, open_phase_length) ==
    CASE kind = "Impulsive" ->
             ImpulsiveGlottalSource_start_period(src, open_phase_length)
      [] kind = "Natural" ->
             Ok(NaturalGlottalSource_start_period(src, open_phase_length))
      [] kind = "Natural of lib.rs" ->
             Ok(lib_NaturalGlottalSource_start_period(src, open_phase_length))

GlottalSource_get_next(kind, src) ==
    IF kind = "Impulsive" THEN ImpulsiveGlottalSource_get_next(src)
    ELSE NaturalGlottalSource_get_next(src)

\* the pulse get_next of the impulsive source feeds its resonator
GlottalSource_pulse(kind, src) ==
    IF kind = "Impulsive" /\ src.resonator # None
    THEN Some(ImpulsiveGlottalSource_pulse(src.position_in_period))
    ELSE None

InitGlottal ==
    /\ \E kind \in GlottalKinds, sr \in GlottalSampleRates :
          glottal = Some([kind |-> kind, src |-> GlottalSource_new(kind, sr),
                          started |-> None, k |-> 0, y |-> None,
                          pulse |-> None, before |-> None, ops |-> 0])
    /\ generator = None
    /\ pc = "idle"
    /\ call = NoCall
    /\ out_buf = [len |-> 0, runs |-> <<>>]
    /\ result = Ok("new")
    /\ ncalls = 0
    /\ draws = <<>>
    /\ raw_log = EmptyLog
    /\ sound = NoSound
    /\ filter = None
    /\ tf = None
    /\ pure = None

GlottalStartPeriod(open_phase_length) ==
    /\ glottal # None
    /\ unwrap(glottal).ops < MaxGlottalOps
    /\ \E r \in {GlottalSource_start_period(unwrap(glottal).kind,
                                            unwrap(glottal).src,
                                            open_phase_length)} :
          /\ glottal' = Some([unwrap(glottal) EXCEPT
                                !.src = r.v,
                                !.started = Some(open_phase_length),
                                !.k = 0, !.y = None, !.pulse = None,
                                !.before = None, !.ops = @ + 1])
          /\ result' = [r EXCEPT !.v = ""]
    /\ UNCHANGED <<generator, pc, call, out_buf, ncalls, draws, raw_log,
                   sound, filter, tf, pure>>

GlottalGetNext ==
    /\ glottal # None
    /\ unwrap(glottal).ops < MaxGlottalOps
    /\ \E st \in {GlottalSource_get_next(unwrap(glottal).kind,
                                         unwrap(glottal).src)} :
          glottal' = Some([unwrap(glottal) EXCEPT
                             !.src = st.src,
                             !.k = @ + 1,
                             !.y = Some(st.y),
                             !.pulse = GlottalSource_pulse(unwrap(glottal).kind,
                                                           unwrap(glottal).src),
                             !.before = Some(unwrap(glottal).src),
                             !.ops = @ + 1])
    /\ UNCHANGED <<generator, pc, call, out_buf, result, ncalls, draws, raw_log,
                   sound, filter, tf, pure>>

NextGlottal ==
    \/ \E open_phase_length \in 0 .. MaxOpenPhaseLength :
          GlottalStartPeriod(open_phase_length)
    \/ GlottalGetNext

SpecGlottal == InitGlottal /\ [][NextGlottal]_vars

\* the pulse stated for the k-th get_next after a start_period, k from 0
StatedPulse(k) ==
    IF k = 1 THEN One ELSE IF k = 2 THEN F(-1) ELSE Zero

\* C23: after start_period(0) the impulsive source is idle and get_next
\* returns 0; after start_period(n), n > 0, the position is the number of
\* get_next calls made since, and the k-th of them (from 0) has fed the
\* resonator the pulse 0, +1, -1, 0, 0, ...
C23_ImpulsivePulseTrain ==
    (/\ glottal # None
     /\ unwrap(glottal).kind = "Impulsive"
     /\ unwrap(glottal).started # None)
        => LET s == unwrap(glottal)
           IN  IF unwrap(s.started) = 0
               THEN /\ s.src.resonator = None
                    /\ s.k > 0 => (s.y = Some(Zero) /\ s.pulse = None)
               ELSE /\ s.src.resonator # None
                    /\ s.src.position_in_period = s.k
                    /\ s.k > 0 => s.pulse = Some(StatedPulse(s.k - 1))

\* C23 witness: the fourth get_next after a start_period(n), n > 0
C23_FourthSampleWitness ==
    /\ glottal # None
    /\ unwrap(glottal).kind = "Impulsive"
    /\ unwrap(glottal).started # None
    /\ unwrap(unwrap(glottal).started) > 0
    /\ unwrap(glottal).k = 4

\* what is stated of the natural source holds of the object s
NaturalAsStated(s) ==
    LET n == unwrap(s.started)
    IN  /\ s.src.b = FNeg(FMul(FDiv(F(5), F(n)), FDiv(F(5), F(n))))
        /\ s.src.open_phase_length = n
        /\ s.src.position_in_period = s.k
        /\ s.k = 0 =>
              /\ s.src.a = FDiv(FMul(FNeg(s.src.b), F(n)), F(3))
              /\ s.src.x = Zero
        /\ (s.k > 0 /\ s.k >= n) =>
              /\ s.y = Some(Zero)
              /\ s.src.x = Zero
              /\ s.src.a = unwrap(s.before).a
        /\ (s.k > 0 /\ s.k < n) =>
              /\ s.src.a = FAdd(unwrap(s.before).a, s.src.b)
              /\ s.src.x = FAdd(unwrap(s.before).x, s.src.a)
              /\ s.y = Some(s.src.x)

\* C24: NaturalGlottalSource.start_period(n) sets b = -(5/n)^2,
\* a = -b*n/3, x = 0 and position 0; get_next advances the position
\* first, returns 0 and resets x once position >= n, and otherwise does
\* a += b; x += a and returns x.
C24_NaturalSourceAsStated ==
    (/\ glottal # None
     /\ unwrap(glottal).kind \in {"Natural", "Natural of lib.rs"}
     /\ unwrap(glottal).started # None)
        => NaturalAsStated(unwrap(glottal))

\* the same for the source of src/src/lib.rs alone
NaturalSourceOfLibAsStated ==
    (/\ glottal # None
     /\ unwrap(glottal).kind = "Natural of lib.rs"
     /\ unwrap(glottal).started # None)
        => NaturalAsStated(unwrap(glottal))

\* ------------------------------------------------------------------------
\* SpecFlutter: the time start_new_period hands to
\* perform_frequency_modulation, computed at two period boundaries of one
\* generator: same sample rate and flutter_time_offset, sample positions
\* abs_position[1] and abs_position[2].
\* ------------------------------------------------------------------------

FlutterSampleRates == {12000, 44100}
FlutterPositions == {0, 1, 6000, 11999, 12000, 18000, 44100, 50000}
FlutterTimeOffsets == {0, 7, 1000}

\* the fields of the generator flutter_time_of reads, at boundary i
FlutterGenerator(s, i) ==
    [abs_position |-> s.abs_position[i],
     m_parms |-> [sample_rate |-> s.sample_rate],
     flutter_time_offset |-> s.flutter_time_offset]

InitFlutter ==
    /\ \E sr \in FlutterSampleRates, p1 \in FlutterPositions,
          p2 \in FlutterPositions, offset \in FlutterTimeOffsets :
          pure = Some([sample_rate |-> sr, abs_position |-> <<p1, p2>>,
                       flutter_time_offset |-> offset, op |-> "",
                       time |-> <<>>])
    /\ generator = None
    /\ pc = "idle"
    /\ call = NoCall
    /\ out_buf = [len |-> 0, runs |-> <<>>]
    /\ result = Ok("new")
    /\ ncalls = 0
    /\ draws = <<>>
    /\ raw_log = EmptyLog
    /\ sound = NoSound
    /\ filter = None
    /\ tf = None
    /\ glottal = None

\* start_new_period computes flutter_time at the next of the two boundaries
FlutterTime ==
    /\ pure # None
    /\ unwrap(pure).op \in {"", "flutter_time"}
    /\ Len(unwrap(pure).time) < 2
    /\ \E t \in {flutter_time_of(FlutterGenerator(unwrap(pure),
                                                  Len(unwrap(pure).time) + 1))} :
          pure' = Some([unwrap(pure) EXCEPT !.op = "flutter_time",
                                            !.time = Append(@, t)])
    /\ UNCHANGED <<generator, pc, call, out_buf, result, ncalls, draws, raw_log,
                   sound, filter, tf, glottal>>

NextFlutter == FlutterTime

SpecFlutter == InitFlutter /\ [][NextFlutter]_vars

\* C25: the time of a period boundary is abs_position / sample_rate as a
\* real number plus flutter_time_offset (time * sample_rate =
\* abs_position + flutter_time_offset * sample_rate), for a
\* flutter_time_offset that is the same at every boundary; two boundaries
\* at different sample positions are given different times.
C25_FlutterTimeIsRealSeconds ==
    (pure # None /\ unwrap(pure).op = "flutter_time")
        => LET s == unwrap(pure)
           IN  /\ \A i \in 1 .. Len(s.time) :
                      s.time[i] * s.sample_rate =
                          s.abs_position[i]
                              + s.flutter_time_offset * s.sample_rate
               /\ (Len(s.time) = 2 /\ s.abs_position[1] # s.abs_position[2])
                      => s.time[1] # s.time[2]

\* the time as the code has it: whole seconds
FlutterTimeIsWholeSeconds ==
    (pure # None /\ unwrap(pure).op = "flutter_time")
        => LET s == unwrap(pure)
           IN  \A i \in 1 .. Len(s.time) :
                   /\ (s.time[i] - s.flutter_time_offset) * s.sample_rate
                          <= s.abs_position[i]
                   /\ s.abs_position[i]
                          < (s.time[i] - s.flutter_time_offset + 1) * s.sample_rate

\* ------------------------------------------------------------------------
\* SpecModulation: the amplitude-modulation factors of one sample, for a
\* position inside a period and the three mod parameters of the frame
\* ------------------------------------------------------------------------

MaxPeriodLength == 6

ModulationLevels == {Zero, Q(1, 2)}

\* the part of the generator in_second_half reads
ModulationGenerator(s) ==
    [p_state |-> Some([position_in_period |-> s.position_in_period,
                       period_length |-> s.period_length])]

InitModulation ==
    /\ \E period_length \in 1 .. MaxPeriodLength,
          cascade_aspiration_mod \in ModulationLevels,
          parallel_aspiration_mod \in ModulationLevels,
          frication_mod \in ModulationLevels :
          \E position_in_period \in 0 .. period_length - 1 :
              pure = Some([period_length |-> period_length,
                           position_in_period |-> position_in_period,
                           cascade_aspiration_mod |-> cascade_aspiration_mod,
                           parallel_aspiration_mod |-> parallel_aspiration_mod,
                           frication_mod |-> frication_mod,
                           op |-> "", mod |-> Zero, out |-> None])
    /\ generator = None
    /\ pc = "idle"
    /\ call = NoCall
    /\ out_buf = [len |-> 0, runs |-> <<>>]
    /\ result = Ok("new")
    /\ ncalls = 0
    /\ draws = <<>>
    /\ raw_log = EmptyLog
    /\ sound = NoSound
    /\ filter = None
    /\ tf = None
    /\ glottal = None

\* the factor (1.0 - current_..._mod) for the parameter mod of the frame
modulation_returns(op, mod) ==
    /\ pure' = Some([unwrap(pure) EXCEPT
                        !.op = op, !.mod = mod,
                        !.out = Some(FSub(One,
                                          current_mod(ModulationGenerator(unwrap(pure)),
                                                      mod)))])
    /\ UNCHANGED <<generator, pc, call, out_buf, result, ncalls, draws, raw_log,
                   sound, filter, tf, glottal>>

\* compute_cascade_branch: (1.0 - current_aspiration_mod)
CascadeAspirationFactor ==
    /\ PolyFresh
    /\ modulation_returns("cascade_aspiration", unwrap(pure).cascade_aspiration_mod)

\* compute_parallel_branch: (1.0 - current_aspiration_mod)
ParallelAspirationFactor ==
    /\ PolyFresh
    /\ modulation_returns("parallel_aspiration", unwrap(pure).parallel_aspiration_mod)

\* compute_parallel_branch: (1.0 - current_frication_mod)
FricationFactor ==
    /\ PolyFresh
    /\ modulation_returns("frication", unwrap(pure).frication_mod)

NextModulation ==
    \/ CascadeAspirationFactor
    \/ ParallelAspirationFactor
    \/ FricationFactor

SpecModulation == InitModulation /\ [][NextModulation]_vars

\* C26: the factor is 1 - mod at the positions p with
\* 2 * p >= period_length and 1 at the positions with
\* 2 * p < period_length, for every period length, odd ones included.
C26_ModulationInSecondHalf ==
    (pure # None /\ unwrap(pure).op # "")
        => LET s == unwrap(pure)
           IN  s.out = Some(IF 2 * s.position_in_period >= s.period_length
                            THEN FSub(One, s.mod)
                            ELSE One)

\* the same for even period lengths
ModulationInSecondHalfOfEvenPeriod ==
    (pure # None /\ unwrap(pure).op # "" /\ unwrap(pure).period_length % 2 = 0)
        => LET s == unwrap(pure)
           IN  s.out = Some(IF 2 * s.position_in_period >= s.period_length
                            THEN FSub(One, s.mod)
                            ELSE One)

\* ------------------------------------------------------------------------
\* SpecAntiResonator: an AntiResonator used on its own, with arguments of
\* set for which a0 is 0.0: f = bw = 1e-5 at 12000 Hz
\* ------------------------------------------------------------------------

AntiResonatorFreqs == {Zero, F(3000), Q(1, 100000)}
AntiResonatorBws == {F(2648), Q(1, 100000)}

InitAntiResonator ==
    /\ \E sr \in FilterSampleRates :
          filter = Some([kind |-> "AntiResonator",
                         flt |-> AntiResonator_new(sr), ops |-> 0,
                         last |-> None])
    /\ generator = None
    /\ pc = "idle"
    /\ call = NoCall
    /\ out_buf = [len |-> 0, runs |-> <<>>]
    /\ result = Ok("new")
    /\ ncalls = 0
    /\ draws = <<>>
    /\ raw_log = EmptyLog
    /\ sound = NoSound
    /\ tf = None
    /\ pure = None
    /\ glottal = None

NextAntiResonator ==
    \/ \E f \in AntiResonatorFreqs, bw \in AntiResonatorBws : FilterSet(f, bw, One)
    \/ FilterSetPassthrough
    \/ FilterSetMute
    \/ \E x \in FilterInputs : FilterStep(x)

SpecAntiResonator == InitAntiResonator /\ [][NextAntiResonator]_vars

\* a0 of AntiResonator::set(f, bw) at sample_rate
AntiResonator_a0(sample_rate, f, bw) ==
    FSub(FSub(One, FMul(F(2), FMul(ExpNegPi(FDiv(bw, F(sample_rate))),
                                   Cos2Pi(FDiv(f, F(sample_rate)))))),
         FNeg(FMul(ExpNegPi(FDiv(bw, F(sample_rate))),
                   ExpNegPi(FDiv(bw, F(sample_rate))))))

\* the last operation was a set with valid arguments for which a0 == 0.0
DegenerateSetReturned ==
    /\ filter # None
    /\ unwrap(filter).kind = "AntiResonator"
    /\ unwrap(filter).last = None
    /\ result.v # "" /\ result.v # "new"
    /\ FGt(result.v[1], Zero)
    /\ FLt(result.v[1], Q(unwrap(filter).flt.sample_rate, 2))
    /\ FGt(result.v[2], Zero)
    /\ FEq(AntiResonator_a0(unwrap(filter).flt.sample_rate, result.v[1],
                            result.v[2]), Zero)

\* C27: AntiResonator.set with a0 == 0 returns Ok with a = b = c = 0, and
\* the filter is then the all-zero FIR filter whatever its mode was: step
\* returns 0 for every input and the transfer function is [[0,0,0],[1]].
C27_DegenerateSetIsAllZero ==
    DegenerateSetReturned
        => /\ IsOk(result)
           /\ unwrap(filter).flt.a = Zero
           /\ unwrap(filter).flt.b = Zero
           /\ unwrap(filter).flt.c = Zero
           /\ \A x \in FilterInputs :
                  AntiResonator_step(unwrap(filter).flt, x).y = Zero
           /\ AntiResonator_get_transfer_function_coefficients(unwrap(filter).flt)
                  = <<<<Zero, Zero, Zero>>, <<One>>>>

\* the same for a filter that was neither in passthrough nor muted
DegenerateSetOfActiveFilterIsAllZero ==
    (/\ DegenerateSetReturned
     /\ ~unwrap(filter).flt.passthrough
     /\ ~unwrap(filter).flt.muted)
        => /\ IsOk(result)
           /\ unwrap(filter).flt.a = Zero
           /\ unwrap(filter).flt.b = Zero
           /\ unwrap(filter).flt.c = Zero
           /\ \A x \in FilterInputs :
                  AntiResonator_step(unwrap(filter).flt, x).y = Zero
           /\ AntiResonator_get_transfer_function_coefficients(unwrap(filter).flt)
                  = <<<<Zero, Zero, Zero>>, <<One>>>>

\* ------------------------------------------------------------------------
\* SpecPitch: generate_frame with frames of every pitch
\* ------------------------------------------------------------------------

\* the frames of SpecPitch: periods of 4 and 3 samples, the unvoiced frame,
\* an invalid frame, and a frame whose f0 is more than twice the sample rate
PitchFrameNames == {"FA", "FB", "FQuiet", "FBad", "FHigh"}

NextPitch ==
    \/ \E name \in PitchFrameNames, len \in 0 .. MaxBufLen :
          GenerateFrame(name, len)
    \/ SampleStep
    \/ FrameReturn

SpecPitch == Init /\ [][NextPitch]_vars

\* the period state the last sample was computed in: position_in_period has
\* been incremented since
SampleInsidePeriod ==
    /\ generator.p_state # None
    /\ generator.f_parms # None
    /\ unwrap(generator.p_state).period_length >= 1
    /\ unwrap(generator.p_state).position_in_period - 1 >= 0
    /\ unwrap(generator.p_state).position_in_period - 1
         < unwrap(generator.p_state).period_length

\* C28: whenever a sample has been computed the generator is inside an
\* active period: the period state and the active frame exist,
\* period_length >= 1 and the sample's position_in_period is at least 0 and
\* less than period_length, for every positive finite f0, f0 above twice the
\* sample rate included.
C28_SampleInsideActivePeriod ==
    SampleComputed => SampleInsidePeriod

\* the same for the frames whose f0 is at most twice the sample rate
SampleInsideActivePeriodOfLowPitch ==
    (SampleComputed /\ unwrap(generator.f_parms) # "FHigh")
        => SampleInsidePeriod

\* ------------------------------------------------------------------------
\* C29: the pending frame
\* ------------------------------------------------------------------------

\* the generator as the current call of generate_frame found it
CallEntry == unwrap(call.entry)

\* samples left in the period of g; none when no period is active
SamplesLeft(g) ==
    IF need_new_period(g) THEN 0
    ELSE unwrap(g.p_state).period_length - unwrap(g.p_state).position_in_period

\* the buffer of the current call is longer than what was left of the period
ReachesBoundary == call.len > SamplesLeft(CallEntry)

\* generate_frame has returned to the caller of Spec
CallReturned == pc = "idle" /\ call.entry # None

\* the call was rejected by the frame-reuse check
CallRejectedForReuse == CallReturned /\ result.err = REUSE_MSG

\* how the call's frame F is found on return: active with nothing pending
\* if the call reached a period boundary, else pending behind the frame
\* that was active before
FrameOnReturn ==
    IF ReachesBoundary
    THEN /\ generator.f_parms = Some(call.f_parms)
         /\ generator.new_f_parms = None
    ELSE /\ generator.new_f_parms = Some(call.f_parms)
         /\ generator.f_parms = CallEntry.f_parms

\* C29: at most one frame is pending, and the frame F of a call of
\* generate_frame becomes active exactly at the first period boundary of
\* that call: when the call returns, F is active and nothing is pending if
\* the buffer was longer than what was left of the period (or no period
\* was active), else F is pending and the active frame is unchanged; every
\* call of generate_frame replaces the frame left pending, and a frame
\* becomes active only in the sample loop of the call it was passed to.
C29_FrameActiveAtFirstBoundary ==
    /\ [](Len(generator.new_f_parms) <= 1)
    /\ [](CallReturned => FrameOnReturn)
    /\ [][/\ ncalls' = ncalls + 1
              => generator'.new_f_parms = Some(call'.f_parms)
          /\ generator'.f_parms # generator.f_parms
              => /\ pc = "frame"
                 /\ AtPeriodBoundary
                 /\ generator'.f_parms = Some(call.f_parms)]_vars

\* the same for the calls that the frame-reuse check lets through: a
\* rejected call leaves both the active and the pending frame alone
C29_AcceptedFrameActiveAtFirstBoundary ==
    /\ [](Len(generator.new_f_parms) <= 1)
    /\ []((CallReturned /\ ~CallRejectedForReuse) => FrameOnReturn)
    /\ []((CallRejectedForReuse)
            => /\ generator.f_parms = CallEntry.f_parms
               /\ generator.new_f_parms = CallEntry.new_f_parms)
    /\ [][/\ (ncalls' = ncalls + 1 /\ pc' = "frame")
              => generator'.new_f_parms = Some(call'.f_parms)
          /\ generator'.f_parms # generator.f_parms
              => /\ pc = "frame"
                 /\ AtPeriodBoundary
                 /\ generator'.f_parms = Some(call.f_parms)]_vars

\* C29 witness: a call has returned with its frame pending, after the call
\* before it had left another frame pending: that frame was replaced and
\* never became active
C29_ReplacedPendingFrameWitness ==
    /\ CallReturned
    /\ ~CallRejectedForReuse
    /\ IsOk(result)
    /\ CallEntry.new_f_parms # None
    /\ CallEntry.new_f_parms # Some(call.f_parms)
    /\ generator.new_f_parms = Some(call.f_parms)
    /\ generator.f_parms = CallEntry.f_parms

\* C29 witness: a call has returned with its frame active, having found
\* another frame active and a period under way
C29_ActivatedFrameWitness ==
    /\ CallReturned
    /\ IsOk(result)
    /\ CallEntry.p_state # None
    /\ SamplesLeft(CallEntry) > 0
    /\ CallEntry.f_parms # Some(call.f_parms)
    /\ generator.f_parms = Some(call.f_parms)
    /\ generator.new_f_parms = None

\* ------------------------------------------------------------------------
\* C30: generate_frame returning Err
\* ------------------------------------------------------------------------

\* the fields of the generator that hold the active frame, the FrameState
\* gains and the filters tuned by the frame, delay lines included
FrameFields ==
    {"f_parms", "f_state", "tilt_filter", "output_lp_filter",
     "aspiration_source_casc", "aspiration_source_par", "frication_source_par",
     "nasal_formant_casc", "nasal_antiformant_casc", "oral_formant_casc",
     "nasal_formant_par", "oral_formant_par"}

\* generate_frame has returned Err to the caller of Spec
CallFailed == CallReturned /\ ~IsOk(result)

\* C30: when generate_frame returns Err the generator is left as it was
\* before the call: the active frame, the FrameState gains and every
\* filter's coefficients, mode and delay line are unchanged.
C30_ErrLeavesGeneratorUnchanged ==
    CallFailed => \A f \in FrameFields : generator[f] = CallEntry[f]

\* a call rejected by the frame-reuse check leaves the whole generator as
\* it was
ReuseErrLeavesGeneratorUnchanged ==
    CallRejectedForReuse => generator = CallEntry

====
